---- MODULE Spec2Model ----
(***************************************************************************)
(* Position-lifecycle state machine of the Kiwoom auto-trading system.     *)
(*                                                                         *)
(* Spec     : exit side.  A seeded position is monitored by two            *)
(*            cooperative tasks (the WebSocket receive loop and the REST   *)
(*            backup polling loop); each tick runs                         *)
(*            TradingSystemBase.on_price_update.  An action is the code    *)
(*            that runs between two real suspension points of the event    *)
(*            loop (asyncio.sleep, websocket.send); the broker calls are   *)
(*            synchronous `requests` calls and do not yield.               *)
(* SpecBuy  : entry side.  execute_auto_buy sizes and submits the buy.     *)
(* Further specifications, each introduced where it is defined, cover the  *)
(* waiting loops, the sizing, the position refresh, the signal handler,    *)
(* the take-profit price, the backup polling, shutdown, the cancel of an   *)
(* unfilled buy, and the feed's connect and reconnect.                     *)
(*                                                                         *)
(* Money is in won, time in seconds, rates in 1/1000.                      *)
(***************************************************************************)
EXTENDS Integers, Sequences, FiniteSets, TLC

VARIABLES
    config,              \* TradingConfig, fixed once loaded
    buy_info,            \* self.buy_info: buy_price, quantity, buy_time, is_verified
    sell_executed,       \* self.sell_executed (the spec's sell_order_placed)
    sell_order_no,       \* self.sell_order_no, None or an index into orders
    last_balance_check,  \* self._last_balance_check, None or a clock value
    now,                 \* wall clock, seconds after midnight
    orders,              \* the broker's book: every sell order it accepted
    pc,                  \* where each task is suspended
    elapsed_time,        \* wait_for_sell_execution's loop counter, per task
    wait_order_no,       \* wait_for_sell_execution's order_no argument, per task
    ev,                  \* what the step that led to this state did
    buy,                 \* execute_auto_buy: the buy being placed (SpecBuy)
    trading_lock,        \* the record in the file self.trading_lock_file
    callbacks            \* the stock code is in KiwoomWebSocket.callbacks

vars == <<config, buy_info, sell_executed, sell_order_no, last_balance_check,
          now, orders, pc, elapsed_time, wait_order_no, ev, buy, trading_lock,
          callbacks>>

None == 0 - 1

(***************************************************************************)
(* Bounds of the model.                                                    *)
(***************************************************************************)
MaxClock == 61        \* the clock stops here
MaxOrders == 2        \* ticks stop once the broker accepted this many sells

ClockSteps == {30, 31}
Tasks == {"ws", "poll"}
TickPrices == {0, 9750, 10000, 10100}
\* <<buy_uv, rmnd_qty>> of the stock
Holdings == {<<10010, 100>>, <<0, 0>>, <<10010, 0>>}
CheckTimeouts == {10}
CheckIntervals == {5}
SignalPrices == {0, 990, 999, 4995, 9990, 10000, 49950, 99900, 250000}
Capitals == {100000, 1000000}
DelayMinutes == {0, 1}
BalanceIntervals == {0, 30}
ForceSellTimes == {1}            \* "00:01"
SeedPrice == {10000}
SeedQty == {100}

(***************************************************************************)
(* Configuration defaults that the model keeps fixed.                      *)
(***************************************************************************)
target_profit_rate == 10          \* 1.0 %
stop_loss_rate == -25             \* -2.5 %

(***************************************************************************)
(* Pure helpers.                                                           *)
(***************************************************************************)
get_tick_size(price) ==
    IF price < 1000 THEN 1
    ELSE IF price < 5000 THEN 5
    ELSE IF price < 10000 THEN 10
    ELSE IF price < 50000 THEN 50
    ELSE IF price < 100000 THEN 100
    ELSE IF price < 500000 THEN 500
    ELSE 1000

\* kiwoom_order.calculate_sell_price: one tick below the given price
calculate_sell_price(current_price) == current_price - get_tick_size(current_price)

\* int(buy_price * (1 + profit_rate)) in IEEE doubles: the product can land
\* just below the integer it stands for, and int() then truncates.
\* The pairs <<buy price, tick price>> of PriceBuys and PriceTicks (and of
\* the ticks of Spec) for which it does.
FloatTruncated ==
    {<<9000, 9160>>, <<9000, 9710>>, <<9000, 9940>>, <<9000, 10400>>,
     <<9900, 10100>>, <<9900, 10250>>, <<10000, 10150>>, <<10010, 10400>>}
TargetPrice(buy_price, current_price) ==
    IF <<buy_price, current_price>> \in FloatTruncated
    THEN current_price - 1 ELSE current_price

\* OrderExecutor.calculate_sell_price
executor_sell_price(buy_price, current_price) ==
    calculate_sell_price(TargetPrice(buy_price, current_price))

\* profit_rate <= stop_loss_rate, with profit_rate = (cur - buy) / buy
StopLossHit(current_price, buy_price) ==
    (current_price - buy_price) * 1000 <= stop_loss_rate * buy_price

\* profit_rate >= target_profit_rate
TargetHit(current_price, buy_price) ==
    (current_price - buy_price) * 1000 >= target_profit_rate * buy_price

\* faulty variant: the configured minute itself is not yet due
is_force_sell_time_Strict(clock) == (clock \div 60) > config.daily_force_sell_time

\* is_force_sell_time: both sides are HH:MM, so the clock is cut to minutes
is_force_sell_time(clock) == (clock \div 60) >= config.daily_force_sell_time

\* faulty variants: no gate at all; a gate that still holds at exactly d
StopLossDelayed_Off(bi, clock) == FALSE

StopLossDelayed_Inclusive(bi, clock) ==
    /\ bi.buy_time # None
    /\ config.stop_loss_delay_minutes > 0
    /\ (clock - bi.buy_time) <= 60 * config.stop_loss_delay_minutes

\* faulty variant: a gate that counts the minutes of a position without buy_time
StopLossDelayed_NoBuyTime(bi, clock) ==
    /\ config.stop_loss_delay_minutes > 0
    /\ (clock - bi.buy_time) < 60 * config.stop_loss_delay_minutes

\* the delay gate: elapsed_minutes < stop_loss_delay_minutes
StopLossDelayed(bi, clock) ==
    /\ bi.buy_time # None
    /\ config.stop_loss_delay_minutes > 0
    /\ (clock - bi.buy_time) < 60 * config.stop_loss_delay_minutes

\* a sizer that never answers with less than one share
calculate_buy_quantity_AtLeastOne(price, max_investment) ==
    IF price <= 0 \/ max_investment < price THEN 1 ELSE max_investment \div price

\* a sizer that rounds the quotient up instead of down
calculate_buy_quantity_RoundUp(price, max_investment) ==
    IF price <= 0 THEN 0 ELSE (max_investment + price - 1) \div price

\* OrderExecutor.calculate_buy_quantity and KiwoomOrderAPI.calculate_order_quantity
calculate_buy_quantity(price, max_investment) ==
    IF price <= 0 THEN 0 ELSE max_investment \div price

\* KiwoomOrderAPI.calculate_order_quantity: the same computation again
calculate_order_quantity(buy_price, max_investment) ==
    IF buy_price <= 0 THEN 0 ELSE max_investment \div buy_price

(***************************************************************************)
(* Broker answers.  place_*_order and cancel_order catch only              *)
(* requests.RequestException, so besides success and reported failure      *)
(* they can raise; the query calls catch every Exception.                  *)
(***************************************************************************)
PlaceOutcomes == {"accepted", "rejected", "raised"}

NoLookup == [kind |-> "none", price |-> 0, qty |-> 0]

\* get_account_balance as seen by the holdings loop of on_price_update
HoldingOutcomes ==
    {[kind |-> k, price |-> 0, qty |-> 0] : k \in {"fail", "absent"}}
    \cup {[kind |-> "found", price |-> h[1], qty |-> h[2]] : h \in Holdings}

\* json.dump of a result holding buy_info: a datetime buy_time is not
\* serialisable (TypeError); otherwise only the file write can fail.
SaveOutcomes(bi) == IF bi.buy_time # None THEN {"raise"} ELSE {"ok", "raise"}

NoEv == [op |-> "none", price |-> 0, path |-> "none",
         sell |-> "none", cancel |-> "none", pre_flag |-> FALSE]

\* the lock file: absent, or the record written by record_today_trading
NoLock == [last_trading_date |-> None, buy_price |-> 0, quantity |-> 0,
           trading_time |-> None]
\* datetime.now().strftime("%Y%m%d"): the calendar day of a clock reading
Today(clock) == clock \div (24 * 3600)

\* open(..., 'w') and json.dump succeed, or raise and are logged
LockWrites == {"ok", "fail"}

record_today_trading(lock, buy_price, quantity, buy_time, clock, w) ==
    IF w = "ok"
    THEN [last_trading_date |-> Today(clock), buy_price |-> buy_price,
          quantity |-> quantity, trading_time |-> buy_time]
    ELSE lock

TickEv(t, price, path, sell, cancel) ==
    [op |-> "tick", price |-> price, path |-> path,
     sell |-> sell, cancel |-> cancel, pre_flag |-> sell_executed]

OpenOrders == {i \in 1..Len(orders) : orders[i].state = "open"}

(***************************************************************************)
(* on_price_update, first half: the position refresh.                      *)
(***************************************************************************)
NeedLazy == config.enable_lazy_verification /\ ~buy_info.is_verified

\* the lazy verification found the stock with positive figures
LazyRecords(h) == h.kind = "found" /\ h.price > 0 /\ h.qty > 0

LazyVerified(bi, h) ==
    IF h.kind = "found"
    THEN IF LazyRecords(h)
         THEN [bi EXCEPT !.buy_price = h.price, !.quantity = h.qty,
                         !.is_verified = TRUE]
         ELSE bi
    ELSE [bi EXCEPT !.is_verified = TRUE]

should_check_balance ==
    /\ config.balance_check_interval > 0
    /\ \/ last_balance_check = None
       \/ now - last_balance_check >= config.balance_check_interval

\* a periodic check that takes over any figures that differ, zero price or not
PeriodicRecords_AnyPrice(bi, h) ==
    /\ h.kind = "found"
    /\ (h.price # bi.buy_price \/ h.qty # bi.quantity)

\* the periodic check found the stock with a positive average price and
\* with a price or a quantity that differs from the tracked ones
PeriodicRecords(bi, h) ==
    /\ h.kind = "found"
    /\ h.price > 0
    /\ (h.price # bi.buy_price \/ h.qty # bi.quantity)

\* a periodic check that takes a stock missing from the holdings as sold
PeriodicRefreshed_DropsAbsent(bi, h) ==
    IF PeriodicRecords(bi, h)
    THEN [bi EXCEPT !.buy_price = h.price, !.quantity = h.qty]
    ELSE IF h.kind = "absent" THEN [bi EXCEPT !.quantity = 0] ELSE bi

PeriodicRefreshed(bi, h) ==
    IF PeriodicRecords(bi, h)
    THEN [bi EXCEPT !.buy_price = h.price, !.quantity = h.qty]
    ELSE bi

(***************************************************************************)
(* on_price_update, second half: the exit decision, in priority order.     *)
(***************************************************************************)
\* faulty variant: stop-loss and take-profit looked at before the liquidation time
Decide_StopLossFirst(bi, price, clock, flag) ==
    IF config.enable_stop_loss /\ StopLossHit(price, bi.buy_price) /\ ~flag
    THEN (IF StopLossDelayed(bi, clock) THEN "delayed" ELSE "stop")
    ELSE IF TargetHit(price, bi.buy_price) /\ ~flag
    THEN "profit"
    ELSE IF config.enable_daily_force_sell /\ is_force_sell_time(clock) /\ ~flag
    THEN "force"
    ELSE "none"

\* faulty variant: the stop-loss is looked at whether it is enabled or not
Decide_StopLossAlways(bi, price, clock, flag) ==
    IF config.enable_daily_force_sell /\ is_force_sell_time(clock) /\ ~flag
    THEN "force"
    ELSE IF StopLossHit(price, bi.buy_price) /\ ~flag
    THEN (IF StopLossDelayed(bi, clock) THEN "delayed" ELSE "stop")
    ELSE IF TargetHit(price, bi.buy_price) /\ ~flag
    THEN "profit"
    ELSE "none"

Decide(bi, price, clock, flag) ==
    IF config.enable_daily_force_sell /\ is_force_sell_time(clock) /\ ~flag
    THEN "force"
    ELSE IF config.enable_stop_loss /\ StopLossHit(price, bi.buy_price) /\ ~flag
    THEN (IF StopLossDelayed(bi, clock) THEN "delayed" ELSE "stop")
    ELSE IF TargetHit(price, bi.buy_price) /\ ~flag
    THEN "profit"
    ELSE "none"

\* faulty variant: the flag is not yet set when the path first suspends
SetOnEntry_Deferred == FALSE

\* self.sell_executed = True, the statement right after the guard
SetOnEntry == TRUE

SellOrder(kind, qty, price) ==
    [kind |-> kind, qty |-> qty, price |-> price, state |-> "open"]

Booked(book, r, order) == IF r = "accepted" THEN Append(book, order) ELSE book

\* faulty variant: an exception of the callback ends the task that called it
handle_realtime_data_error_Propagates(t) == [pc EXCEPT ![t] = "done"]

\* An exception that leaves on_price_update: the except clause of
\* _handle_realtime_data (of polling_loop for the polling task) logs it and
\* the loop takes its next turn.
handle_realtime_data_error(t) == [pc EXCEPT ![t] = "idle"]

\* The exit paths, from the guard to the first suspension point or return.
\* Each sets sell_executed, sell_order_no, orders, pc, elapsed_time, ev.
\* get_outstanding_orders succeeds (the open orders) or fails (nothing to
\* cancel); each cancel_order succeeds, fails, or raises out of the handler
\* because the cancel loop is outside the try block.
execute_daily_force_sell(t, bi, price) ==
    \E toCancel \in {OpenOrders, {}} : \E done \in SUBSET toCancel :
        LET kept == [i \in 1..Len(orders) |->
                        IF i \in done
                        THEN [orders[i] EXCEPT !.state = "cancelled"]
                        ELSE orders[i]]
        IN \/ /\ done # toCancel
              /\ sell_executed' = SetOnEntry
              /\ orders' = kept
              /\ pc' = handle_realtime_data_error(t)
              /\ ev' = TickEv(t, price, "force", "none", "raise")
              /\ UNCHANGED <<sell_order_no, elapsed_time, wait_order_no>>
           \/ \E r \in PlaceOutcomes :
              /\ sell_executed' = SetOnEntry
              /\ orders' = Booked(kept, r, SellOrder("force", bi.quantity, 0))
              /\ pc' = IF r = "accepted"
                       THEN [pc EXCEPT ![t] = "unreg_force"] ELSE pc
              /\ ev' = TickEv(t, price, "force", r, "none")
              /\ UNCHANGED <<sell_order_no, elapsed_time, wait_order_no>>

execute_stop_loss(t, bi, price) ==
    IF bi.quantity <= 0
    THEN /\ sell_executed' = SetOnEntry
         /\ ev' = TickEv(t, price, "stop", "none", "none")
         /\ UNCHANGED <<sell_order_no, orders, pc, elapsed_time, wait_order_no>>
    ELSE \E r \in PlaceOutcomes :
         /\ sell_executed' = SetOnEntry
         /\ orders' = Booked(orders, r, SellOrder("stop", bi.quantity, 0))
         /\ pc' = IF r = "accepted" THEN [pc EXCEPT ![t] = "unreg_stop"] ELSE pc
         /\ ev' = TickEv(t, price, "stop", r, "none")
         /\ UNCHANGED <<sell_order_no, elapsed_time, wait_order_no>>

execute_auto_sell(t, bi, price) ==
    IF bi.quantity <= 0
    THEN /\ sell_executed' = SetOnEntry
         /\ ev' = TickEv(t, price, "profit", "none", "none")
         /\ UNCHANGED <<sell_order_no, orders, pc, elapsed_time, wait_order_no>>
    ELSE \E r \in PlaceOutcomes :
         /\ orders' = Booked(orders, r,
                SellOrder("profit", bi.quantity,
                          executor_sell_price(bi.buy_price, price)))
         /\ ev' = TickEv(t, price, "profit", r, "none")
         /\ IF r = "accepted"
            THEN /\ sell_executed' = SetOnEntry
                 /\ sell_order_no' = Len(orders) + 1
                 /\ pc' = [pc EXCEPT ![t] = "wait_sell"]
                 /\ elapsed_time' = [elapsed_time EXCEPT ![t] = 0]
                 /\ wait_order_no' = [wait_order_no EXCEPT ![t] = Len(orders) + 1]
            ELSE /\ sell_executed' = FALSE     \* rejected, or the except clause
                 /\ UNCHANGED <<sell_order_no, pc, elapsed_time, wait_order_no>>

(***************************************************************************)
(* One tick: on_price_update from its first line to the first suspension   *)
(* point of the exit path it takes, or to its return.                      *)
(***************************************************************************)
on_price_update(t, price) ==
    IF price <= 0
    THEN /\ ev' = TickEv(t, price, "skip", "none", "none")
         /\ UNCHANGED <<buy_info, last_balance_check, sell_executed,
                        sell_order_no, orders, pc, elapsed_time, wait_order_no,
                        trading_lock>>
    ELSE
    \E h1 \in (IF NeedLazy THEN HoldingOutcomes ELSE {NoLookup}) :
    \E w1 \in (IF NeedLazy /\ LazyRecords(h1) THEN LockWrites ELSE {"none"}) :
      LET bi1 == IF NeedLazy THEN LazyVerified(buy_info, h1) ELSE buy_info
          lock1 == IF w1 = "none" THEN trading_lock
                   ELSE record_today_trading(trading_lock, h1.price, h1.qty,
                                             buy_info.buy_time, now, w1)
      IN
      IF bi1.buy_price <= 0
      THEN /\ buy_info' = bi1
           /\ trading_lock' = lock1
           /\ ev' = TickEv(t, price, "skip", "none", "none")
           /\ UNCHANGED <<last_balance_check, sell_executed, sell_order_no,
                          orders, pc, elapsed_time, wait_order_no>>
      ELSE
      \E h2 \in (IF should_check_balance THEN HoldingOutcomes ELSE {NoLookup}) :
      \E w2 \in (IF should_check_balance /\ PeriodicRecords(bi1, h2)
                 THEN LockWrites ELSE {"none"}) :
        LET bi2 == IF should_check_balance
                   THEN PeriodicRefreshed(bi1, h2) ELSE bi1
            lock2 == IF w2 = "none" THEN lock1
                     ELSE record_today_trading(lock1, h2.price, h2.qty,
                                               bi1.buy_time, now, w2)
            path == Decide(bi2, price, now, sell_executed)
        IN /\ buy_info' = bi2
           /\ trading_lock' = lock2
           /\ last_balance_check' =
                  IF should_check_balance THEN now ELSE last_balance_check
           /\ CASE path = "force" -> execute_daily_force_sell(t, bi2, price)
                [] path = "stop" -> execute_stop_loss(t, bi2, price)
                [] path = "profit" -> execute_auto_sell(t, bi2, price)
                [] OTHER ->
                     /\ ev' = TickEv(t, price, path, "none", "none")
                     /\ UNCHANGED <<sell_executed, sell_order_no, orders, pc,
                                    elapsed_time, wait_order_no>>

\* KiwoomWebSocket.receive_loop delivers a REAL message to the callback
WsTick ==
    /\ pc["ws"] = "idle"
    /\ callbacks
    /\ Len(orders) < MaxOrders
    /\ \E price \in TickPrices : on_price_update("ws", price)
    /\ UNCHANGED <<config, callbacks, now, buy>>

\* PriceMonitor's polling_loop calls the callback with a positive price it
\* read from a result that carries the key "price"
PollTick ==
    /\ pc["poll"] = "idle"
    /\ Len(orders) < MaxOrders
    /\ \E price \in {p \in TickPrices : p > 0} : on_price_update("poll", price)
    /\ UNCHANGED <<config, callbacks, now, buy>>

(***************************************************************************)
(* wait_for_sell_execution: one turn of the loop after asyncio.sleep, and  *)
(* on timeout handle_outstanding_order, then the rest of execute_auto_sell.*)
(***************************************************************************)
CancelOutcomes(no) ==
    IF no # None /\ orders[no].state = "open"
    THEN {"ok", "fail", "raise"} ELSE {"fail", "raise"}

\* faulty variant: a successful cancel leaves the flag as it was
FlagAfterCancel_Stuck(c) == sell_executed

\* sell_executed after the cancel: cleared on success, and by the except
\* clause of execute_auto_sell when cancel_order raised
FlagAfterCancel(c) == IF c \in {"ok", "raise"} THEN FALSE ELSE sell_executed

handle_outstanding_order(t) ==
    IF config.cancel_outstanding_on_failure
    THEN \E c \in CancelOutcomes(sell_order_no) :
           /\ ev' = [NoEv EXCEPT !.op = "timeout", !.cancel = c,
                                 !.pre_flag = sell_executed]
           /\ orders' = IF c = "ok"
                        THEN [orders EXCEPT ![sell_order_no].state = "cancelled"]
                        ELSE orders
           /\ sell_executed' = FlagAfterCancel(c)
           /\ sell_order_no' = IF c = "ok" THEN None ELSE sell_order_no
    ELSE /\ ev' = [NoEv EXCEPT !.op = "timeout", !.cancel = "retain",
                               !.pre_flag = sell_executed]
         /\ UNCHANGED <<orders, sell_executed, sell_order_no>>

\* a loop that takes one more turn when the time is exactly used up
StillWaiting_Inclusive(elapsed, timeout) == elapsed <= timeout

\* `while elapsed < timeout` of both waiting loops
StillWaiting(elapsed, timeout) == elapsed < timeout

wait_for_sell_execution(t) ==
    /\ pc[t] = "wait_sell"
    /\ LET e == elapsed_time[t] + config.outstanding_check_interval IN
       \E check \in {"fail", IF orders[wait_order_no[t]].state = "open"
                             THEN "open" ELSE "executed"} :
          IF check = "executed"
          THEN /\ pc' = [pc EXCEPT ![t] = "unreg_profit"]
               /\ elapsed_time' = [elapsed_time EXCEPT ![t] = 0]
               /\ wait_order_no' = [wait_order_no EXCEPT ![t] = None]
               /\ ev' = [NoEv EXCEPT !.op = "executed", !.pre_flag = sell_executed]
               /\ UNCHANGED <<orders, sell_executed, sell_order_no>>
          ELSE IF StillWaiting(e, config.outstanding_check_timeout)
          THEN /\ elapsed_time' = [elapsed_time EXCEPT ![t] = e]
               /\ ev' = NoEv
               /\ UNCHANGED <<pc, orders, sell_executed, sell_order_no,
                              wait_order_no>>
          ELSE /\ handle_outstanding_order(t)
               /\ pc' = [pc EXCEPT ![t] = "idle"]
               /\ elapsed_time' = [elapsed_time EXCEPT ![t] = 0]
               /\ wait_order_no' = [wait_order_no EXCEPT ![t] = None]
    /\ UNCHANGED <<config, callbacks, trading_lock, buy_info, last_balance_check, now, buy>>

(***************************************************************************)
(* After websocket.unregister_stock: cancel the receive task, save the     *)
(* result file, return.  Only execute_auto_sell resets the flag when the   *)
(* save raises (its try block covers everything after the order).          *)
(***************************************************************************)
\* KiwoomWebSocket.unregister_stock: the REMOVE request is sent and the
\* callback deleted, or nothing is deleted (not connected, or the send raises)
UnregisterOutcomes == {"ok", "failed"}

\* an exit whose stop-loss branch leaves the receive task running
finish_exit_StopLossKeepsTask(t) ==
    /\ pc[t] \in {"unreg_profit", "unreg_stop", "unreg_force"}
    /\ \E u \in UnregisterOutcomes, io \in SaveOutcomes(buy_info) :
          /\ callbacks' = (callbacks /\ u # "ok")
          /\ sell_executed' =
                 IF pc[t] = "unreg_profit" /\ io = "raise"
                 THEN FALSE ELSE sell_executed
          /\ ev' = [op |-> "finish", price |-> 0, path |-> pc[t], sell |-> io,
                    cancel |-> "none", pre_flag |-> sell_executed,
                    unregister |-> u]
    /\ pc' = [u \in Tasks |-> IF u = t THEN "idle"
                              ELSE IF u = "ws" /\ pc[t] # "unreg_stop" THEN "done"
                              ELSE pc[u]]
    /\ UNCHANGED <<config, trading_lock, buy_info, sell_order_no,
                   last_balance_check, now, orders, elapsed_time,
                   wait_order_no, buy>>

finish_exit(t) ==
    /\ pc[t] \in {"unreg_profit", "unreg_stop", "unreg_force"}
    /\ \E u \in UnregisterOutcomes, io \in SaveOutcomes(buy_info) :
          /\ callbacks' = (callbacks /\ u # "ok")
          /\ sell_executed' =
                 IF pc[t] = "unreg_profit" /\ io = "raise"
                 THEN FALSE ELSE sell_executed
          /\ ev' = [op |-> "finish", price |-> 0, path |-> pc[t], sell |-> io,
                    cancel |-> "none", pre_flag |-> sell_executed,
                    unregister |-> u]
    /\ pc' = [u \in Tasks |-> IF u = "ws" THEN "done"
                              ELSE IF u = t THEN "idle" ELSE pc[u]]
    /\ UNCHANGED <<config, trading_lock, buy_info, sell_order_no,
                   last_balance_check, now, orders, elapsed_time,
                   wait_order_no, buy>>

(***************************************************************************)
(* Environment: the broker fills an open order; time passes.               *)
(***************************************************************************)
BrokerFill ==
    /\ \E i \in OpenOrders : orders' = [orders EXCEPT ![i].state = "filled"]
    /\ ev' = NoEv
    /\ UNCHANGED <<config, callbacks, trading_lock, buy_info, sell_executed, sell_order_no,
                   last_balance_check, now, pc, elapsed_time, wait_order_no, buy>>

Advance ==
    /\ \E d \in ClockSteps : now + d <= MaxClock /\ now' = now + d
    /\ ev' = NoEv
    /\ UNCHANGED <<config, callbacks, trading_lock, buy_info, sell_executed, sell_order_no,
                   last_balance_check, orders, pc, elapsed_time, wait_order_no, buy>>

(***************************************************************************)
(* The monitored position: what execute_auto_buy (or a restart that        *)
(* restores the holdings) leaves when start_websocket_monitoring returns.  *)
(***************************************************************************)
Configs ==
    [enable_daily_force_sell : BOOLEAN, daily_force_sell_time : ForceSellTimes,
     enable_stop_loss : BOOLEAN, stop_loss_delay_minutes : DelayMinutes,
     cancel_outstanding_on_failure : BOOLEAN,
     outstanding_check_timeout : CheckTimeouts,
     outstanding_check_interval : CheckIntervals,
     enable_lazy_verification : BOOLEAN,
     balance_check_interval : BalanceIntervals]

NoBuy == [phase |-> "off"]

Init ==
    /\ config \in Configs
    /\ buy_info \in [buy_price : SeedPrice, quantity : SeedQty,
                     buy_time : {None, 0}, is_verified : BOOLEAN]
    /\ buy_info.is_verified = ~config.enable_lazy_verification
    \* the two refresh mechanisms are exercised one at a time, and without
    \* the cancellation of unfilled sell orders
    /\ ~(config.enable_lazy_verification /\ config.balance_check_interval > 0)
    /\ (config.enable_lazy_verification \/ config.balance_check_interval > 0)
          => ~config.cancel_outstanding_on_failure
    /\ sell_executed = FALSE
    /\ callbacks = TRUE
    /\ sell_order_no = None
    /\ last_balance_check = None
    /\ now = 0
    /\ orders = <<>>
    /\ pc = [t \in Tasks |-> "idle"]
    /\ elapsed_time = [t \in Tasks |-> 0]
    /\ wait_order_no = [t \in Tasks |-> None]
    /\ ev = NoEv
    /\ buy = NoBuy
    \* the record of the buy that opened the position
    /\ trading_lock = record_today_trading(NoLock, buy_info.buy_price,
                                           buy_info.quantity, buy_info.buy_time,
                                           now, "ok")

Next ==
    \/ WsTick
    \/ PollTick
    \/ \E t \in Tasks : wait_for_sell_execution(t)
    \/ \E t \in Tasks : finish_exit(t)
    \/ BrokerFill
    \/ Advance

Spec == Init /\ [][Next]_vars

(***************************************************************************)
(* Entry side: execute_auto_buy up to its first suspension point, then     *)
(* the outcome of wait_for_buy_execution.                                  *)
(***************************************************************************)
BuyTimeouts == {10}
BuyIntervals == {4, 5}

BuyConfigs ==
    [buy_order_type : {"market", "limit_plus_one_tick"},
     max_investment : Capitals,
     buy_fallback_to_market : BOOLEAN,
     enable_lazy_verification : BOOLEAN,
     buy_execution_timeout : BuyTimeouts,
     buy_execution_check_interval : BuyIntervals]

\* locals of wait_for_buy_execution in its latest loop turn, and its result
NoPoll == [outstanding |-> "none", rmndr_qty |-> 0, balance |-> "none",
           actual_qty |-> 0, avg_buy_price |-> 0]
NoResult == [status |-> "none", executed_qty |-> 0, remaining_qty |-> 0,
             avg_buy_price |-> 0, success |-> FALSE]

Signal(type, price) ==
    [phase |-> "signal", order_type |-> type, current_price |-> price,
     quantity |-> 0, order_price |-> 0, submitted |-> 0,
     elapsed |-> 0, polls |-> 0, cancels |-> <<>>, poll |-> NoPoll,
     result |-> NoResult]

NoPosition == [buy_price |-> 0, quantity |-> 0, buy_time |-> None,
               is_verified |-> FALSE]

execute_auto_buy ==
    /\ buy.phase = "signal"
    /\ LET current_price == buy.current_price
           order_price == current_price + get_tick_size(current_price)
           \* sized from the current price, whatever the order type
           quantity == calculate_buy_quantity(current_price, config.max_investment)
       IN IF quantity <= 0
          THEN buy' = [buy EXCEPT !.phase = "abandoned"] /\ UNCHANGED buy_info
          ELSE \E r \in PlaceOutcomes :
               IF r # "accepted"
               THEN /\ buy' = [buy EXCEPT !.phase = "abandoned",
                                          !.submitted = @ + 1]
                    /\ UNCHANGED buy_info
               ELSE IF buy.order_type = "limit_plus_one_tick"
               THEN /\ buy' = [buy EXCEPT !.phase = "wait_buy",
                                          !.quantity = quantity,
                                          !.order_price = order_price,
                                          !.submitted = @ + 1]
                    /\ UNCHANGED buy_info
               ELSE /\ buy' = [buy EXCEPT !.phase = "bought",
                                          !.quantity = quantity,
                                          !.submitted = @ + 1]
                    /\ buy_info' = [buy_price |-> current_price,
                                    quantity |-> quantity, buy_time |-> now,
                                    is_verified |-> ~config.enable_lazy_verification]
    /\ UNCHANGED <<config, callbacks, trading_lock, sell_executed, sell_order_no, last_balance_check,
                   now, orders, pc, elapsed_time, wait_order_no, ev>>

\* get_outstanding_orders: the query fails, the order is not in the list,
\* or it is listed with a remaining quantity
RemainingQtys(order_qty) == {r \in {0, 60, order_qty} : r <= order_qty}
OutstandingOutcomes(order_qty) ==
    {[kind |-> "fail", rmndr_qty |-> 0], [kind |-> "absent", rmndr_qty |-> 0]}
        \cup {[kind |-> "found", rmndr_qty |-> r] : r \in RemainingQtys(order_qty)}

\* get_account_balance: the query fails, the stock is not held, or it is
\* held with a quantity (rmnd_qty) and an average price (buy_uv)
HeldQtys(order_qty) == {0, 40, order_qty}
BalanceOutcomes(order_qty, prices) ==
    {[kind |-> "fail", qty |-> 0, price |-> 0],
     [kind |-> "absent", qty |-> 0, price |-> 0]}
        \cup {[kind |-> "found", qty |-> q, price |-> pr] :
                  q \in HeldQtys(order_qty), pr \in prices}

BuyCancelOutcomes == {"ok", "fail", "raise"}

\* a classification that takes any holding for a complete fill
Classify_AnyHolding(rmndr_qty, actual_qty, order_qty) ==
    IF rmndr_qty = 0 /\ actual_qty > 0 THEN "FULLY_EXECUTED"
    ELSE IF actual_qty > 0 /\ rmndr_qty > 0 THEN "PARTIALLY_EXECUTED"
    ELSE "PENDING"

\* step 3 of the loop body: the two terminal cases, else keep waiting
Classify(rmndr_qty, actual_qty, order_qty) ==
    IF rmndr_qty = 0 /\ actual_qty >= order_qty THEN "FULLY_EXECUTED"
    ELSE IF actual_qty > 0 /\ rmndr_qty > 0 THEN "PARTIALLY_EXECUTED"
    ELSE "PENDING"

\* a cancel for the whole order where only the remainder is open
PartialCancelQty_WholeOrder(rmndr_qty, order_qty) == order_qty

\* the quantity of the cancel sent for a partially filled order
PartialCancelQty(rmndr_qty, order_qty) == rmndr_qty

\* a cancel for a single share at the timeout
TimeoutCancelQty_OneShare(order_qty) == 1

\* the quantity of the cancel sent at the timeout
TimeoutCancelQty(order_qty) == order_qty

\* execute_auto_buy after wait_for_buy_execution returned FULLY_EXECUTED or
\* PARTIALLY_EXECUTED: the position is the executed part at the average price
Filled(p, res, cancels) ==
    /\ buy' = [buy EXCEPT !.phase = "bought", !.elapsed = 0,
                          !.polls = @ + 1, !.poll = p, !.result = res,
                          !.cancels = cancels]
    /\ buy_info' = [buy_price |-> res.avg_buy_price,
                    quantity |-> res.executed_qty,
                    buy_time |-> now, is_verified |-> TRUE]

\* one turn of the loop of wait_for_buy_execution, from one sleep to the
\* next; on a terminal case or at the timeout, the rest of execute_auto_buy
wait_for_buy_execution ==
    /\ buy.phase = "wait_buy"
    /\ LET order_qty == buy.quantity
           elapsed == buy.elapsed + config.buy_execution_check_interval
       IN \E o \in OutstandingOutcomes(order_qty) :
          \E b \in BalanceOutcomes(order_qty, {buy.current_price, buy.order_price}) :
          LET order_found == o.kind = "found"
              rmndr_qty == IF order_found THEN o.rmndr_qty ELSE 0
              actual_qty == IF b.kind = "found" THEN b.qty ELSE 0
              avg_buy_price == IF b.kind = "found" THEN b.price ELSE 0
              p == [outstanding |-> o.kind, rmndr_qty |-> rmndr_qty,
                    balance |-> b.kind, actual_qty |-> actual_qty,
                    avg_buy_price |-> avg_buy_price]
              status == Classify(rmndr_qty, actual_qty, order_qty)
              \* an exception leaves wait_for_buy_execution and is caught by
              \* execute_auto_buy, which returns None
              Raised(qty) ==
                  /\ buy' = [buy EXCEPT !.phase = "abandoned", !.elapsed = 0,
                                        !.polls = @ + 1, !.poll = p,
                                        !.cancels = Append(@, [qty |-> qty, result |-> "raise"]),
                                        !.result = [NoResult EXCEPT !.status = "raised"]]
                  /\ UNCHANGED buy_info
          IN CASE status = "FULLY_EXECUTED" ->
                    Filled(p, [status |-> "FULLY_EXECUTED",
                               executed_qty |-> actual_qty, remaining_qty |-> 0,
                               avg_buy_price |-> avg_buy_price, success |-> TRUE],
                           buy.cancels)
               [] status = "PARTIALLY_EXECUTED" ->
                    \E c \in BuyCancelOutcomes :
                       LET qty == PartialCancelQty(rmndr_qty, order_qty)
                       IN IF c = "raise" THEN Raised(qty)
                          ELSE Filled(p, [status |-> "PARTIALLY_EXECUTED",
                                          executed_qty |-> actual_qty,
                                          remaining_qty |-> rmndr_qty,
                                          avg_buy_price |-> avg_buy_price,
                                          success |-> TRUE],
                                      Append(buy.cancels, [qty |-> qty, result |-> c]))
               [] OTHER ->
                    IF StillWaiting(elapsed, config.buy_execution_timeout)
                    THEN /\ buy' = [buy EXCEPT !.elapsed = elapsed,
                                               !.polls = @ + 1, !.poll = p]
                         /\ UNCHANGED buy_info
                    ELSE \E c \in BuyCancelOutcomes :
                         LET qty == TimeoutCancelQty(order_qty)
                             res == [status |-> "NOT_EXECUTED", executed_qty |-> 0,
                                     remaining_qty |-> order_qty,
                                     avg_buy_price |-> 0, success |-> FALSE]
                         IN IF c = "raise" THEN Raised(qty)
                            ELSE /\ buy' = [buy EXCEPT
                                       !.phase = IF config.buy_fallback_to_market
                                                 THEN "signal" ELSE "abandoned",
                                       !.order_type = IF config.buy_fallback_to_market
                                                      THEN "market" ELSE @,
                                       !.elapsed = 0, !.polls = @ + 1, !.poll = p,
                                       !.cancels = Append(@, [qty |-> qty, result |-> c]),
                                       !.result = res]
                                 /\ UNCHANGED buy_info
    /\ UNCHANGED <<config, callbacks, trading_lock, sell_executed, sell_order_no, last_balance_check,
                   now, orders, pc, elapsed_time, wait_order_no, ev>>

InitBuy ==
    /\ config \in BuyConfigs
    /\ buy \in {Signal(config.buy_order_type, p) : p \in SignalPrices}
    /\ buy_info = NoPosition
    /\ sell_executed = FALSE
    /\ callbacks = TRUE
    /\ sell_order_no = None
    /\ last_balance_check = None
    /\ trading_lock = NoLock
    /\ now = 0
    /\ orders = <<>>
    /\ pc = [t \in Tasks |-> "idle"]
    /\ elapsed_time = [t \in Tasks |-> 0]
    /\ wait_order_no = [t \in Tasks |-> None]
    /\ ev = NoEv

NextBuy == execute_auto_buy \/ wait_for_buy_execution

SpecBuy == InitBuy /\ [][NextBuy]_vars

(***************************************************************************)
(* The two waiting loops on their own, each started right after its order  *)
(* was accepted: wait_for_buy_execution after the limit buy of             *)
(* execute_auto_buy, wait_for_sell_execution after the limit sell of       *)
(* execute_auto_sell.  asyncio.sleep returns after the interval, so a loop *)
(* that is waiting always gets its next turn.                              *)
(***************************************************************************)
WaitTimeouts == {10}
WaitIntervals == {3, 4, 5, 10}

WaitConfigs ==
    [enable_daily_force_sell : {FALSE}, daily_force_sell_time : ForceSellTimes,
     enable_stop_loss : {FALSE}, stop_loss_delay_minutes : {0},
     cancel_outstanding_on_failure : BOOLEAN,
     outstanding_check_timeout : WaitTimeouts,
     outstanding_check_interval : WaitIntervals,
     enable_lazy_verification : {FALSE},
     balance_check_interval : {0}]

InitWaitSell ==
    /\ config \in WaitConfigs
    /\ buy = NoBuy
    /\ buy_info \in [buy_price : SeedPrice, quantity : SeedQty,
                     buy_time : {None, 0}, is_verified : {TRUE}]
    /\ orders = <<SellOrder("profit", buy_info.quantity,
                            executor_sell_price(buy_info.buy_price, 10100))>>
    /\ sell_executed = SetOnEntry
    /\ callbacks = TRUE
    /\ sell_order_no = 1
    /\ \E t \in Tasks :
          /\ pc = [u \in Tasks |-> IF u = t THEN "wait_sell" ELSE "idle"]
          /\ wait_order_no = [u \in Tasks |-> IF u = t THEN 1 ELSE None]
    /\ elapsed_time = [t \in Tasks |-> 0]
    /\ ev = NoEv

InitWaitBuy ==
    /\ config \in {c \in BuyConfigs : c.buy_order_type = "limit_plus_one_tick"}
    /\ \E p \in SignalPrices :
          /\ calculate_buy_quantity(p, config.max_investment) > 0
          /\ buy = [Signal(config.buy_order_type, p) EXCEPT
                       !.phase = "wait_buy", !.submitted = 1,
                       !.quantity = calculate_buy_quantity(p, config.max_investment),
                       !.order_price = p + get_tick_size(p)]
    /\ buy_info = NoPosition
    /\ orders = <<>>
    /\ sell_executed = FALSE
    /\ callbacks = TRUE
    /\ sell_order_no = None
    /\ pc = [t \in Tasks |-> "idle"]
    /\ wait_order_no = [t \in Tasks |-> None]
    /\ elapsed_time = [t \in Tasks |-> 0]
    /\ ev = NoEv

InitWait ==
    /\ InitWaitSell \/ InitWaitBuy
    /\ last_balance_check = None
    /\ trading_lock = NoLock
    /\ now = 0

NextWait ==
    \/ wait_for_buy_execution
    \/ \E t \in Tasks : wait_for_sell_execution(t)
    \/ BrokerFill

SpecWait ==
    /\ InitWait /\ [][NextWait]_vars
    /\ WF_vars(wait_for_buy_execution)
    /\ \A t \in Tasks : WF_vars(wait_for_sell_execution(t))

(***************************************************************************)
(* The two sizing functions on their own: every price and capital of a     *)
(* small range, sized once by each function.                               *)
(***************************************************************************)
MaxSizePrice == 12
MaxSizeCapital == 15
SizePrices == (0 - 1)..MaxSizePrice
SizeCapitals == 1..MaxSizeCapital

size_with_executor ==
    /\ buy.phase = "sizing"
    /\ buy' = [buy EXCEPT !.phase = "sized", !.by = "calculate_buy_quantity",
                  !.quantity = calculate_buy_quantity(buy.current_price,
                                                      buy.max_investment)]
    /\ UNCHANGED <<config, callbacks, trading_lock, buy_info, sell_executed, sell_order_no,
                   last_balance_check, now, orders, pc, elapsed_time,
                   wait_order_no, ev>>

size_with_api ==
    /\ buy.phase = "sizing"
    /\ buy' = [buy EXCEPT !.phase = "sized", !.by = "calculate_order_quantity",
                  !.quantity = calculate_order_quantity(buy.current_price,
                                                        buy.max_investment)]
    /\ UNCHANGED <<config, callbacks, trading_lock, buy_info, sell_executed, sell_order_no,
                   last_balance_check, now, orders, pc, elapsed_time,
                   wait_order_no, ev>>

InitSize ==
    /\ buy \in [phase : {"sizing"}, by : {"nobody"}, current_price : SizePrices,
                max_investment : SizeCapitals, quantity : {None}]
    /\ config \in {c \in BuyConfigs : c.buy_order_type = "market"
                                      /\ c.max_investment = 100000
                                      /\ c.buy_fallback_to_market
                                      /\ c.enable_lazy_verification
                                      /\ c.buy_execution_check_interval = 5}
    /\ buy_info = NoPosition
    /\ sell_executed = FALSE
    /\ callbacks = TRUE
    /\ sell_order_no = None
    /\ last_balance_check = None
    /\ trading_lock = NoLock
    /\ now = 0
    /\ orders = <<>>
    /\ pc = [t \in Tasks |-> "idle"]
    /\ elapsed_time = [t \in Tasks |-> 0]
    /\ wait_order_no = [t \in Tasks |-> None]
    /\ ev = NoEv

NextSize == size_with_executor \/ size_with_api

SpecSize == InitSize /\ [][NextSize]_vars

(***************************************************************************)
(* Properties of the exit side (Spec).                                     *)
(***************************************************************************)
ExitPcs == {"wait_sell", "unreg_profit", "unreg_stop", "unreg_force"}
InExitPath == {t \in Tasks : pc[t] \in ExitPcs}
ExitPaths == {"force", "stop", "profit"}
Evaluated == ev.op = "tick" /\ ev.price > 0 /\ buy_info.buy_price > 0
PlacedNow(kind) ==
    /\ ev.sell = "accepted"
    /\ orders # <<>>
    /\ orders[Len(orders)].kind = kind
    /\ orders[Len(orders)].state = "open"
ForceDue == now >= 60 * config.daily_force_sell_time
Elapsed == now - buy_info.buy_time

\* C1: the guard and the assignment of sell_executed run without a
\* suspension between them, so at any time at most one task is inside an
\* exit path, the flag is set for as long as it is there, and every tick
\* that entered an exit path found the flag false.
C1_OneTickPassesTheGuard ==
    /\ Cardinality(InExitPath) <= 1
    /\ InExitPath # {} => sell_executed
    /\ (ev.op = "tick" /\ ev.path \in ExitPaths) => ~ev.pre_flag

\* one task waits for its take-profit order while the other task's tick,
\* at a price that meets the target, is turned away by the flag
C1_Witness ==
    /\ \E t \in Tasks : pc[t] = "wait_sell"
    /\ Evaluated /\ ev.pre_flag /\ ev.path = "none"
    /\ TargetHit(ev.price, buy_info.buy_price)

\* C2: a sell order is never submitted while an earlier accepted sell
\* order of the position has not been cancelled.
C2_NoSellWhileEarlierNotCancelled ==
    [][Len(orders') > Len(orders) =>
          \A i \in 1..Len(orders) : orders'[i].state = "cancelled"]_vars

\* C3: when the broker sell call of an exit path raises or reports failure,
\* sell_executed is false again when the path returns.
C3_FlagClearedOnFailedSell ==
    (ev.op = "tick" /\ ev.path \in ExitPaths /\ ev.sell \in {"rejected", "raised"})
        => ~sell_executed

\* C4: on a tick with forced liquidation enabled and due and the flag
\* false, at a price that crosses the stop-loss threshold or meets the
\* profit target, only the forced-liquidation exit is invoked: no stop-loss
\* and no take-profit order comes from that tick.
C4_ForcedLiquidationOnly ==
    (/\ Evaluated /\ ~ev.pre_flag
     /\ config.enable_daily_force_sell /\ ForceDue
     /\ \/ StopLossHit(ev.price, buy_info.buy_price)
        \/ TargetHit(ev.price, buy_info.buy_price))
        => /\ ev.path = "force"
           /\ ev.sell = "accepted" => PlacedNow("force")

\* forced liquidation sold at a price at which the (enabled, no longer
\* delayed) stop-loss would otherwise have fired
C4_Witness ==
    /\ Evaluated /\ ev.path = "force" /\ PlacedNow("force")
    /\ config.enable_stop_loss
    /\ StopLossHit(ev.price, buy_info.buy_price)
    /\ ~StopLossDelayed(buy_info, now)

C6_DelayedTickChangesNoState ==
    [][(ev'.op = "tick" /\ ev'.path = "delayed")
          => UNCHANGED <<buy_info, last_balance_check, sell_executed,
                         sell_order_no, orders, pc>>]_vars

\* C6: with stop-loss enabled, the entry time set and a delay d > 0, a
\* tick whose time since entry is below d and whose price crosses the
\* stop-loss threshold places no sell and leaves the flag, the stored order
\* id, the order book and every task where they were, unless forced
\* liquidation is due on it; the position refresh that precedes the exit
\* decision may still update the tracked position on such a tick.
C6_DelayedTickPlacesNoSell ==
    [][(/\ ev'.op = "tick" /\ ev'.price > 0 /\ buy_info'.buy_price > 0
        /\ config.enable_stop_loss
        /\ config.stop_loss_delay_minutes > 0
        /\ buy_info'.buy_time # None
        /\ now - buy_info'.buy_time < 60 * config.stop_loss_delay_minutes
        /\ StopLossHit(ev'.price, buy_info'.buy_price)
        /\ ~(config.enable_daily_force_sell /\ ForceDue))
          => /\ ev'.path \in {"delayed", "none"}
             /\ ev'.sell = "none"
             /\ UNCHANGED <<sell_executed, sell_order_no, orders, pc>>]_vars

\* half a minute after the entry a tick below the stop-loss threshold was
\* held back, with nothing sold so far
C6_Witness ==
    /\ Evaluated /\ ev.path = "delayed" /\ ~ev.pre_flag
    /\ buy_info.buy_time # None /\ Elapsed = 30
    /\ StopLossHit(ev.price, buy_info.buy_price)
    /\ orders = <<>> /\ ~sell_executed

\* C7: with a delay of one minute, stop-loss enabled, the flag false and
\* forced liquidation not due, a tick that crosses the stop-loss threshold
\* places no sell 30 s after the entry and, 60 s or 61 s after it, submits
\* the stop-loss market sell for the whole tracked quantity.
C7_StopLossAfterOneMinute ==
    (/\ Evaluated /\ ~ev.pre_flag
     /\ config.enable_stop_loss /\ config.stop_loss_delay_minutes = 1
     /\ buy_info.buy_time # None /\ Elapsed \in {30, 60, 61}
     /\ StopLossHit(ev.price, buy_info.buy_price)
     /\ ~(config.enable_daily_force_sell /\ ForceDue))
        => IF Elapsed = 30
           THEN ev.path = "delayed" /\ ev.sell = "none"
           ELSE /\ ev.path = "stop"
                /\ buy_info.quantity > 0 => ev.sell \in PlaceOutcomes
                /\ ev.sell = "accepted"
                      => /\ PlacedNow("stop")
                         /\ orders[Len(orders)].price = 0
                         /\ orders[Len(orders)].qty = buy_info.quantity

\* exactly one minute after the entry the stop-loss market sell went out
C7_Witness ==
    /\ Evaluated /\ ev.path = "stop" /\ PlacedNow("stop")
    /\ config.stop_loss_delay_minutes = 1
    /\ buy_info.buy_time # None /\ Elapsed = 60
    /\ orders[Len(orders)].qty = buy_info.quantity /\ buy_info.quantity > 0

\* C8: when the take-profit order is not confirmed within the timeout, a
\* cancel is issued exactly when the policy says so; after a successful
\* cancel the flag is false and the stored order id is cleared.
C8_CancelClearsFlagAndOrderNo ==
    ev.op = "timeout"
        => /\ config.cancel_outstanding_on_failure <=> ev.cancel # "retain"
           /\ ev.cancel = "ok" => (~sell_executed /\ sell_order_no = None)

\* the timed-out order was cancelled, the flag given back and the id cleared
C8_Witness ==
    /\ ev.op = "timeout" /\ ev.cancel = "ok" /\ ev.pre_flag
    /\ ~sell_executed /\ sell_order_no = None
    /\ \E i \in 1..Len(orders) : orders[i].state = "cancelled"

\* C9: when the cancel of the timed-out order fails, or the policy is to
\* retain the order, the flag stays true.
C9_FlagKeptWhenCancelFails ==
    (ev.op = "timeout" /\ ev.cancel \in {"fail", "raise", "retain"})
        => sell_executed

\* C18: with lazy verification enabled, once a tick with a price has been
\* processed the position is verified, whatever the holdings lookup of that
\* tick answered.
C18_VerifiedAfterFirstTick ==
    (ev.op = "tick" /\ ev.price > 0 /\ config.enable_lazy_verification)
        => buy_info.is_verified

\* C19: the tracked quantity of the open position is above 0, also after
\* the lazy verification and the periodic balance check have run.
C19_OpenPositionHasShares ==
    buy_info.buy_price > 0 => buy_info.quantity > 0

\* C20: of two ticks processed at the same time of day, the second finds
\* no reason to query the balance again and changes no field of the
\* position.
C20_SecondRefreshDoesNothing ==
    [][(/\ ev.op = "tick" /\ ev.price > 0
        /\ ev'.op = "tick" /\ ev'.price > 0
        /\ now' = now)
          => /\ ~NeedLazy
             /\ ~should_check_balance
             /\ buy_info' = buy_info
             /\ last_balance_check' = last_balance_check]_vars

(***************************************************************************)
(* Properties of the entry side (SpecBuy).                                 *)
(***************************************************************************)
\* C10: the limit-plus-one-tick buy that is submitted costs no more than
\* the capital at its order price.
C10_LimitBuyWithinCapital ==
    buy.phase = "wait_buy"
        => buy.quantity * buy.order_price <= config.max_investment

\* C12: a reference price of zero or less, like a price above the capital,
\* is sized to 0 shares, and then the buy flow stops before the broker is
\* called: no buy order is submitted and no position is created.
C12_ZeroQuantityAborts ==
    (buy.current_price <= 0 \/ buy.current_price > config.max_investment)
        => /\ buy.phase \in {"signal", "abandoned"}
           /\ buy.submitted = 0
           /\ buy.quantity = 0
           /\ buy_info = NoPosition

\* the signal with price 0 was given up with nothing sent to the broker
C12_Witness ==
    /\ buy.phase = "abandoned" /\ buy.current_price = 0
    /\ buy.submitted = 0 /\ buy_info = NoPosition

BuyTimedOut ==
    /\ buy.polls > 0
    /\ buy.polls * config.buy_execution_check_interval >= config.buy_execution_timeout

C16_FailedQueryClassifiesNothing ==
    (buy.poll.outstanding = "fail" \/ buy.poll.balance = "fail")
        => buy.result.status \notin {"FULLY_EXECUTED", "PARTIALLY_EXECUTED"}

(***************************************************************************)
(* Properties of the waiting loops (SpecWait).                             *)
(***************************************************************************)
CeilDiv(a, b) == (a + b - 1) \div b
BuyPollLimit ==
    CeilDiv(config.buy_execution_timeout, config.buy_execution_check_interval)
SellPollLimit ==
    CeilDiv(config.outstanding_check_timeout, config.outstanding_check_interval)
BuyWaiting == buy.phase = "wait_buy"
SellWaiting(t) == pc[t] = "wait_sell"

RefreshConfigs ==
    {c \in Configs : /\ ~c.enable_daily_force_sell
                     /\ ~c.enable_stop_loss
                     /\ c.stop_loss_delay_minutes = 0
                     /\ ~c.cancel_outstanding_on_failure}

refresh_position ==
    \E h1 \in (IF NeedLazy THEN HoldingOutcomes ELSE {NoLookup}) :
    \E w1 \in (IF NeedLazy /\ LazyRecords(h1) THEN LockWrites ELSE {"none"}) :
      LET bi1 == IF NeedLazy THEN LazyVerified(buy_info, h1) ELSE buy_info
          lock1 == IF w1 = "none" THEN trading_lock
                   ELSE record_today_trading(trading_lock, h1.price, h1.qty,
                                             buy_info.buy_time, now, w1)
          checked == bi1.buy_price > 0 /\ should_check_balance
      IN
      \E h2 \in (IF checked THEN HoldingOutcomes ELSE {NoLookup}) :
      \E w2 \in (IF checked /\ PeriodicRecords(bi1, h2)
                 THEN LockWrites ELSE {"none"}) :
        /\ buy_info' = IF checked THEN PeriodicRefreshed(bi1, h2) ELSE bi1
        /\ trading_lock' =
               IF w2 = "none" THEN lock1
               ELSE record_today_trading(lock1, h2.price, h2.qty,
                                         bi1.buy_time, now, w2)
        /\ last_balance_check' = IF checked THEN now ELSE last_balance_check
        /\ ev' = [op |-> "refresh", checked |-> checked,
                  lazy |-> h1, lazy_write |-> w1,
                  periodic |-> h2, periodic_write |-> w2,
                  tracked |-> bi1, recorded |-> lock1]
        /\ UNCHANGED <<config, callbacks, sell_executed, sell_order_no, now, orders, pc,
                       elapsed_time, wait_order_no, buy>>

InitRefresh ==
    /\ config \in RefreshConfigs
    /\ buy_info \in [buy_price : SeedPrice, quantity : SeedQty,
                     buy_time : {None, 0}, is_verified : BOOLEAN]
    /\ sell_executed = FALSE
    /\ callbacks = TRUE
    /\ sell_order_no = None
    /\ last_balance_check = None
    /\ now = 0
    /\ orders = <<>>
    /\ pc = [t \in Tasks |-> "idle"]
    /\ elapsed_time = [t \in Tasks |-> 0]
    /\ wait_order_no = [t \in Tasks |-> None]
    /\ ev = NoEv
    /\ buy = NoBuy
    \* no record yet, or the record of the buy that opened the position
    /\ trading_lock \in
           {NoLock, record_today_trading(NoLock, buy_info.buy_price,
                                         buy_info.quantity, buy_info.buy_time,
                                         now, "ok")}

NextRefresh == refresh_position \/ Advance

SpecRefresh == InitRefresh /\ [][NextRefresh]_vars

\* the last step was a refresh whose periodic balance check ran
PeriodicChecked == ev.op = "refresh" /\ ev.checked

\* the periodic check found the stock with figures that differ from the
\* tracked ones
FoundDifferent ==
    /\ ev.periodic.kind = "found"
    /\ \/ ev.periodic.price # ev.tracked.buy_price
       \/ ev.periodic.qty # ev.tracked.quantity

C22_AbsentHoldingChangesNothing ==
    (PeriodicChecked /\ ev.periodic.kind = "absent")
        => /\ buy_info = ev.tracked
           /\ trading_lock = ev.recorded

\* a position refreshed to 10,010 x 100 earlier, then missing from the
\* holdings at the next check: it stays 10,010 x 100
C22_Witness ==
    /\ PeriodicChecked /\ ev.periodic.kind = "absent"
    /\ now >= 30
    /\ buy_info.buy_price = 10010 /\ buy_info.quantity = 100
    /\ trading_lock.buy_price = 10010


(***************************************************************************)
(* AutoTradingSystem: the daily buy limit and the buy window                *)
(* (SpecSignal).  Clock readings are seconds; a day has 24 * 3600 of them.  *)
(***************************************************************************)
MaxDay == 1
MaxSignals == 2

\* instants of a day around the buy window 09:00 ~ 09:10: 08:59:59,
\* 09:00:00, 09:09:59 and 09:10:00
DayInstants == {32399, 32400, 32999, 33000}
Instants == {d * 24 * 3600 + s : d \in 0..MaxDay, s \in DayInstants}

\* BUY_START_TIME and BUY_END_TIME, in minutes after midnight
BuyWindows == {<<540, 550>>}

\* datetime.now().strftime("%H:%M"): the minute of the day of a clock reading
HourMinute(clock) == (clock % (24 * 3600)) \div 60

\* a window check that lets the end minute through
is_buy_time_allowed_EndInclusive(clock, start, end) ==
    start <= HourMinute(clock) /\ HourMinute(clock) <= end

is_buy_time_allowed(clock, start, end) ==
    start <= HourMinute(clock) /\ HourMinute(clock) < end

\* a lock check that takes any record for today's
check_today_trading_done_AnyRecord(lock, clock) ==
    lock.last_trading_date # None

\* the lock file exists and holds today's date
check_today_trading_done(lock, clock) ==
    /\ lock.last_trading_date # None
    /\ lock.last_trading_date = Today(clock)

\* AutoTradingSystem.execute_auto_buy: no price, no quantity or an exception
\* (None); an order the broker rejects; an order the broker accepts, with
\* the result file written or not (then the except branch returns None)
BuyAttempts == {"none", "rejected", "accepted", "accepted_unsaved"}

Messages == 1..MaxSignals

\* the last order the broker accepted, and whether its record was written
NoBuyYet == [time |-> None, recorded |-> FALSE]

\* a message: where its handling stands and the day it was posted
NoMessage == [pc |-> "none", arrived |-> None]

\* The part of handle_telegram_signal after the message copy, which is also
\* the body of the loop over the recent messages in start_auto_trading:
\* lock check, window check, execute_auto_buy, record_today_trading.
signal_guards_and_buy(i, via, msg1, listening1, scan1) ==
    LET locked == check_today_trading_done(trading_lock, now)
        open == is_buy_time_allowed(now, buy.buy_start_time, buy.buy_end_time)
    IN
    \E a \in (IF ~locked /\ open THEN BuyAttempts ELSE {"skipped"}) :
    \E w \in (IF a = "accepted" THEN LockWrites ELSE {"none"}) :
       LET placed == a \in {"accepted", "accepted_unsaved"}
           bi == [buy_price |-> 10000, quantity |-> 100, buy_time |-> None,
                  is_verified |-> FALSE]
       IN
       /\ buy_info' = IF placed THEN bi ELSE buy_info
       /\ trading_lock' =
              IF a = "accepted"
              THEN record_today_trading(trading_lock, bi.buy_price,
                                        bi.quantity, now, now, w)
              ELSE trading_lock
       /\ buy' = [buy EXCEPT
              !.msg = msg1,
              !.listening = listening1,
              !.scan = IF a = "accepted" THEN 0 ELSE scan1,
              !.order_executed = (@ \/ a = "accepted"),
              !.last_buy = IF placed
                           THEN [time |-> now, recorded |-> w = "ok"]
                           ELSE @]
       /\ ev' = [op |-> "signal", msg |-> i, via |-> via, locked |-> locked, open |-> open,
                 attempt |-> a, write |-> w, earlier_buy |-> buy.last_buy]
       /\ UNCHANGED <<config, callbacks, sell_executed, sell_order_no, last_balance_check,
                      now, orders, pc, elapsed_time, wait_order_no>>

\* a message is posted in the source channel; a registered handler starts
\* and runs up to the copy of the message to the target channel
new_message ==
    \E i \in Messages :
       /\ buy.msg[i].pc = "none"
       /\ \A j \in Messages : j < i => buy.msg[j].pc # "none"
       /\ buy' = [buy EXCEPT !.msg[i] =
                     [pc |-> IF buy.listening THEN "copying" ELSE "posted",
                      arrived |-> Today(now)]]
       /\ ev' = NoEv
       /\ UNCHANGED <<config, callbacks, trading_lock, buy_info, sell_executed,
                      sell_order_no, last_balance_check, now, orders, pc,
                      elapsed_time, wait_order_no>>

\* handle_telegram_signal, from the return of the copy to its end
handle_telegram_signal ==
    \E i \in Messages :
       /\ buy.msg[i].pc = "copying"
       /\ signal_guards_and_buy(i, "event",
                                [buy.msg EXCEPT ![i].pc = "handled"],
                                buy.listening, buy.scan)

\* start_auto_trading, one turn of the loop over the recent messages: a
\* message of another day is passed over; a buy ends the loop; after the
\* last message the handler is registered
scan_recent_messages ==
    /\ buy.scan \in Messages
    /\ LET i == buy.scan
           last == i = MaxSignals
           next == IF last THEN 0 ELSE i + 1
       IN IF buy.msg[i].pc # "none" /\ buy.msg[i].arrived = Today(now)
          THEN signal_guards_and_buy(i, "scan", buy.msg, TRUE, next)
          ELSE /\ buy' = [buy EXCEPT !.scan = next, !.listening = TRUE]
               /\ ev' = NoEv
               /\ UNCHANGED <<config, callbacks, trading_lock, buy_info, sell_executed,
                              sell_order_no, last_balance_check, now, orders,
                              pc, elapsed_time, wait_order_no>>

\* the process ends and start_auto_trading runs again: the handlers of the
\* old process are gone, the lock file is still there.  With a holding in
\* the account only the sell monitoring starts; without one (or when the
\* balance query fails) the recent messages are read.
restart ==
    /\ \E holding \in (IF buy.last_buy.time # None THEN BOOLEAN ELSE {FALSE}) :
         buy' = [buy EXCEPT
                    !.order_executed = holding,
                    !.listening = FALSE,
                    !.scan = IF holding THEN 0 ELSE 1,
                    !.msg = [i \in Messages |->
                               IF buy.msg[i].pc = "copying"
                               THEN [buy.msg[i] EXCEPT !.pc = "posted"]
                               ELSE buy.msg[i]]]
    /\ buy_info' = NoPosition
    /\ ev' = NoEv
    /\ UNCHANGED <<config, callbacks, trading_lock, sell_executed, sell_order_no,
                   last_balance_check, now, orders, pc, elapsed_time,
                   wait_order_no>>

time_passes ==
    /\ \E t \in Instants : t > now /\ now' = t
    /\ ev' = NoEv
    /\ UNCHANGED <<config, callbacks, trading_lock, buy_info, sell_executed,
                   sell_order_no, last_balance_check, orders, pc,
                   elapsed_time, wait_order_no, buy>>

InitSignal ==
    /\ config \in RefreshConfigs
    /\ config.enable_lazy_verification /\ config.balance_check_interval = 0
    /\ buy_info = NoPosition
    /\ trading_lock = NoLock
    /\ sell_executed = FALSE
    /\ callbacks = TRUE
    /\ sell_order_no = None
    /\ last_balance_check = None
    /\ now = 32399
    /\ orders = <<>>
    /\ pc = [t \in Tasks |-> "idle"]
    /\ elapsed_time = [t \in Tasks |-> 0]
    /\ wait_order_no = [t \in Tasks |-> None]
    /\ ev = NoEv
    /\ \E win \in BuyWindows :
         buy = [phase |-> "signals", buy_start_time |-> win[1],
                buy_end_time |-> win[2], listening |-> TRUE, scan |-> 0,
                order_executed |-> FALSE,
                msg |-> [i \in Messages |-> NoMessage],
                last_buy |-> NoBuyYet]

NextSignal ==
    \/ new_message
    \/ handle_telegram_signal
    \/ scan_recent_messages
    \/ restart
    \/ time_passes

SpecSignal == InitSignal /\ [][NextSignal]_vars


\* the last step ran the guards of a signal, and sent an order or not
SignalHandled == ev.op = "signal"
OrderSent == SignalHandled /\ ev.attempt # "skipped"
OrderAccepted == SignalHandled /\ ev.attempt \in {"accepted", "accepted_unsaved"}

\* an order was accepted earlier on the day of this step
BoughtEarlierToday ==
    /\ ev.earlier_buy.time # None
    /\ Today(ev.earlier_buy.time) = Today(now)

\* C23: within one calendar day at most one buy is executed: a signal
\* handled on a day on which an order was already accepted is
\* rejected by the lock check and sends no order.
C23_OneBuyPerDay ==
    (SignalHandled /\ BoughtEarlierToday)
        => ev.locked /\ ~OrderSent

\* C24: a lock record written by record_today_trading and read by
\* check_today_trading_done on the same calendar day yields True; read on
\* a later calendar day it yields False.
C24_LockRoundTrip ==
    (SignalHandled /\ ev.earlier_buy.recorded)
        => (ev.locked <=>
               (now \div (24 * 3600) = ev.earlier_buy.time \div (24 * 3600)))

\* written at 09:09:59, read at 09:00:00 of the next day: False
C24_Witness ==
    /\ SignalHandled /\ ev.earlier_buy.recorded
    /\ ev.earlier_buy.time = 32999
    /\ now = 24 * 3600 + 32400
    /\ ~ev.locked

\* C25: an order is sent only for a signal handled at a time of day t with
\* start <= t < end of the buy window; a signal handled at the end time or
\* outside the window sends no order.
C25_OrdersInsideTheWindow ==
    OrderSent
        => /\ buy.buy_start_time * 60 <= now % (24 * 3600)
           /\ now % (24 * 3600) < buy.buy_end_time * 60

\* an order accepted at 09:09:59, the last second of the window 09:00 ~ 09:10
C25_Witness ==
    /\ OrderAccepted
    /\ now % (24 * 3600) = 32999
    /\ buy.buy_end_time = 550


(***************************************************************************)
(* After the exit (Spec).                                                  *)
(***************************************************************************)
\* task t has a confirmed sell behind it and is about to unregister
Unregistering(t) == pc[t] \in {"unreg_profit", "unreg_stop", "unreg_force"}

\* C26: after a sell is confirmed successful, on the take-profit, the
\* stop-loss and the forced-liquidation path alike, the task goes on to
\* unregister_stock and ws_receive_task.cancel(): it leaves that point only
\* with the receive task cancelled and, when the REMOVE request went out,
\* with the callback of the stock removed.
C26_ExitStopsTheFeed ==
    /\ [](ev.op = "executed" => \E t \in Tasks : pc[t] = "unreg_profit")
    /\ []((ev.op = "tick" /\ ev.path = "stop" /\ ev.sell = "accepted")
             => \E t \in Tasks : pc[t] = "unreg_stop")
    /\ []((ev.op = "tick" /\ ev.path = "force" /\ ev.sell = "accepted")
             => \E t \in Tasks : pc[t] = "unreg_force")
    /\ [][\A t \in Tasks : (Unregistering(t) /\ ~Unregistering(t)')
             => /\ ev'.op = "finish"
                /\ pc'["ws"] = "done"
                /\ ev'.unregister = "ok" => ~callbacks']_vars

\* a stop-loss sell was accepted and the exit has finished: the callback is
\* removed and the receive task cancelled
C26_Witness ==
    /\ ev.op = "finish" /\ ev.path = "unreg_stop" /\ ev.unregister = "ok"
    /\ ~callbacks /\ pc["ws"] = "done"


\* C27: once an exit order is confirmed filled (the exit has run to its
\* end and cancelled the receive task) the position is cleared, and a tick
\* that comes later, from either task, is not evaluated against it: it
\* finds no buy price and returns.
C27_PositionClearedAfterExit ==
    pc["ws"] = "done"
        => /\ buy_info.buy_price = 0 /\ buy_info.quantity = 0
           /\ ev.op = "tick" => ev.path = "skip"


(***************************************************************************)
(* The price of the take-profit order (SpecPrice): execute_auto_sell calls *)
(* OrderExecutor.calculate_sell_price with the buy price and the profit    *)
(* rate of the tick.                                                       *)
(***************************************************************************)
PriceBuys == {9000, 9900, 10000, 10010, 10100}

\* the prices between 9,100 and 10,400 that lie on the tick grid
PriceTicks == {p \in 9100..10400 : p % get_tick_size(p) = 0}

take_profit_price ==
    /\ buy.phase = "tick"
    /\ buy' = [buy EXCEPT !.phase = "priced",
                          !.sell_price = executor_sell_price(buy.buy_price,
                                                             buy.current_price)]
    /\ ev' = NoEv
    /\ UNCHANGED <<config, callbacks, trading_lock, buy_info, sell_executed,
                   sell_order_no, last_balance_check, now, orders, pc,
                   elapsed_time, wait_order_no>>

InitPrice ==
    /\ config \in RefreshConfigs
    /\ config.enable_lazy_verification /\ config.balance_check_interval = 0
    /\ buy_info = NoPosition
    /\ trading_lock = NoLock
    /\ sell_executed = FALSE
    /\ callbacks = TRUE
    /\ sell_order_no = None
    /\ last_balance_check = None
    /\ now = 0
    /\ orders = <<>>
    /\ pc = [t \in Tasks |-> "idle"]
    /\ elapsed_time = [t \in Tasks |-> 0]
    /\ wait_order_no = [t \in Tasks |-> None]
    /\ ev = NoEv
    /\ \E b \in PriceBuys : \E p \in PriceTicks :
          /\ TargetHit(p, b)
          /\ buy = [phase |-> "tick", buy_price |-> b, current_price |-> p,
                    sell_price |-> None]

NextPrice == take_profit_price

SpecPrice == InitPrice /\ [][NextPrice]_vars

\* C28: when take-profit fires on a tick with price P, the limit sell order
\* is priced at exactly P minus one tick, the tick being the tick size at P.
C28_SellPriceOneTickBelow ==
    buy.phase = "priced"
        => buy.sell_price = buy.current_price - get_tick_size(buy.current_price)


(***************************************************************************)
(* The backup polling (SpecPoll): the two loops that fetch the price with  *)
(* KiwoomOrderAPI.get_current_price, one turn each, next to what a          *)
(* streaming tick at the same price and time decides.                      *)
(***************************************************************************)
\* KiwoomOrderAPI.get_current_price: the result of a successful query
PriceResult(p) == [success |-> TRUE, current_price |-> p]

\* dict.get(key, default)
DictGet(d, key, default) == IF key \in DOMAIN d THEN d[key] ELSE default

\* what the last turn of a polling loop fetched and did, and what
\* on_price_update decides for that price
PollEv(loop, price, path) ==
    [op |-> "poll", loop |-> loop, price |-> price, path |-> path,
     streaming |-> IF price > 0 /\ buy_info.buy_price > 0
                   THEN Decide(buy_info, price, now, sell_executed)
                   ELSE "none"]

\* AutoTradingSystem.price_polling_loop, one turn of `while not
\* self.sell_executed`: the profit rate against the target, nothing else;
\* at the target it calls execute_auto_sell, which sets the flag, and breaks
price_polling_loop ==
    /\ ~sell_executed
    /\ \E p \in TickPrices :
         LET current_price == DictGet(PriceResult(p), "current_price", 0)
             hit == current_price > 0
                    /\ TargetHit(current_price, buy_info.buy_price)
         IN /\ sell_executed' = hit
            /\ ev' = PollEv("price_polling_loop", p,
                            IF hit THEN "profit" ELSE "none")
    /\ UNCHANGED <<config, callbacks, trading_lock, buy_info, sell_order_no,
                   last_balance_check, now, orders, pc, elapsed_time,
                   wait_order_no, buy>>

\* PriceMonitor.start_backup_polling, one turn of polling_loop: the price is
\* read under the key "price" and the callback is called when it is positive
polling_loop ==
    /\ pc["poll"] = "idle"
    /\ \E p \in TickPrices :
         LET current_price == DictGet(PriceResult(p), "price", 0)
         IN IF current_price > 0
            THEN on_price_update("poll", current_price)
            ELSE /\ ev' = PollEv("polling_loop", p, "none")
                 /\ UNCHANGED <<trading_lock, buy_info, sell_executed,
                                sell_order_no, last_balance_check, orders, pc,
                                elapsed_time, wait_order_no>>
    /\ UNCHANGED <<config, callbacks, now, buy>>

InitPoll ==
    /\ config \in Configs
    /\ ~config.enable_lazy_verification
    /\ config.balance_check_interval = 0
    /\ ~config.cancel_outstanding_on_failure
    /\ buy_info \in [buy_price : SeedPrice, quantity : SeedQty,
                     buy_time : {None, 0}, is_verified : {TRUE}]
    /\ trading_lock = NoLock
    /\ sell_executed = FALSE
    /\ callbacks = TRUE
    /\ sell_order_no = None
    /\ last_balance_check = None
    /\ now = 0
    /\ orders = <<>>
    /\ pc = [t \in Tasks |-> "idle"]
    /\ elapsed_time = [t \in Tasks |-> 0]
    /\ wait_order_no = [t \in Tasks |-> None]
    /\ ev = NoEv
    /\ buy = NoBuy

NextPoll == price_polling_loop \/ polling_loop \/ Advance

SpecPoll == InitPoll /\ [][NextPoll]_vars

\* C29: a price obtained by the backup polling goes the way of a streaming
\* tick: whatever exit on_price_update triggers at that price and time
\* (forced liquidation, stop-loss, take-profit), the polling turn triggers.
C29_PolledPriceTakesTheTickPath ==
    (ev.op = "poll" /\ ev.streaming \in {"force", "stop", "profit"})
        => ev.path = ev.streaming


\* C30: an exception raised by a broker call while a tick is handled (the
\* cancel_order of the forced liquidation, which is outside every try block
\* of the handler; a sell order, or the cancel after the confirmation wait,
\* inside one) does not end the monitoring: the step leaves the receive task
\* and the polling task where they wait for the next tick, with the callback
\* still registered, and the task that waited for the confirmation returns
\* to its loop.
C30_BrokerErrorKeepsTheLoop ==
    /\ [][(ev'.op = "tick" /\ (ev'.cancel = "raise" \/ ev'.sell = "raised"))
             => /\ pc' = pc
                /\ callbacks' = callbacks]_vars
    /\ [][\A t \in Tasks :
             (ev'.op = "timeout" /\ ev'.cancel = "raise" /\ pc'[t] # pc[t])
                => /\ pc'[t] = "idle"
                   /\ callbacks' = callbacks]_vars

\* the cancel of an open order raised out of the forced liquidation, and
\* the receive task is back at its recv with the callback registered
C30_Witness ==
    /\ ev.op = "tick" /\ ev.path = "force" /\ ev.cancel = "raise"
    /\ pc["ws"] = "idle" /\ callbacks
    /\ \E i \in 1..Len(orders) : orders[i].state = "open"


(***************************************************************************)
(* Shutdown (SpecShutdown): cleanup of TradingSystemBase and of            *)
(* AutoTradingSystem, one action per stretch between two awaits.  The      *)
(* record `buy` holds the system being shut down.                          *)
(***************************************************************************)
ShutdownSystems == {"TradingSystemBase", "AutoTradingSystem"}
\* a task attribute: never created, running, or finished
TaskStates == {"none", "running", "done"}
QueryOutcomes == {"success", "fail"}

\* the variables no step of the smaller specifications touches
PositionUntouched ==
    UNCHANGED <<config, callbacks, trading_lock, buy_info, sell_executed,
                sell_order_no, last_balance_check, now, orders, pc,
                elapsed_time, wait_order_no>>

ShutdownEv(step) == [op |-> "cleanup", step |-> step]

\* task.cancel() followed by `await task`
Cancelled(task) == IF task = "running" THEN "done" ELSE task

\* TradingSystemBase.cleanup up to `await self.websocket.close()`
base_cleanup_close ==
    /\ buy.phase = "running" /\ buy.system = "TradingSystemBase"
    /\ buy' = [buy EXCEPT !.phase = "closed",
                          !.is_connected = FALSE,
                          !.steps = IF buy.websocket
                                    THEN Append(@, "close") ELSE @]
    /\ ev' = ShutdownEv("close")
    /\ PositionUntouched

\* TradingSystemBase.cleanup after the close: the receive task is cancelled
\* and awaited; self.price_monitor is never touched
base_cleanup_cancel ==
    /\ buy.phase = "closed" /\ buy.system = "TradingSystemBase"
    /\ buy' = [buy EXCEPT !.phase = "done",
                          !.ws_receive_task = Cancelled(@),
                          !.steps = IF buy.ws_receive_task = "running"
                                    THEN Append(@, "cancel_receive") ELSE @]
    /\ ev' = ShutdownEv("cancel_receive")
    /\ PositionUntouched

\* AutoTradingSystem.cleanup up to `await self.ws_receive_task`: it returns
\* when the broker reports open orders, else cancels the receive task
auto_cleanup_cancel ==
    /\ buy.phase = "running" /\ buy.system = "AutoTradingSystem"
    /\ \E q \in QueryOutcomes :
         IF q = "success" /\ buy.outstanding
         THEN /\ buy' = [buy EXCEPT !.phase = "done"]
              /\ ev' = ShutdownEv("return")
         ELSE /\ buy' = [buy EXCEPT
                            !.phase = "cancelled",
                            !.ws_receive_task = Cancelled(@),
                            !.steps = IF buy.ws_receive_task # "none"
                                      THEN Append(@, "cancel_receive") ELSE @]
              /\ ev' = ShutdownEv("cancel_receive")
    /\ PositionUntouched

\* AutoTradingSystem.cleanup: `await self.websocket.close()`
auto_cleanup_close ==
    /\ buy.phase = "cancelled" /\ buy.system = "AutoTradingSystem"
    /\ buy' = [buy EXCEPT !.phase = "closed",
                          !.is_connected = FALSE,
                          !.steps = IF buy.websocket
                                    THEN Append(@, "close") ELSE @]
    /\ ev' = ShutdownEv("close")
    /\ PositionUntouched

\* AutoTradingSystem.cleanup: the Telegram client is disconnected; return
auto_cleanup_disconnect ==
    /\ buy.phase = "closed" /\ buy.system = "AutoTradingSystem"
    /\ buy' = [buy EXCEPT !.phase = "done"]
    /\ ev' = ShutdownEv("disconnect")
    /\ PositionUntouched

\* one turn of the task created with
\* asyncio.create_task(self.price_polling_loop()): it ends by itself when
\* the price reaches the target (execute_auto_sell, break)
polling_task_turn ==
    /\ buy.polling_task = "running"
    /\ \E p \in TickPrices :
         LET hit == p > 0 /\ TargetHit(p, buy_info.buy_price)
         IN /\ buy' = [buy EXCEPT !.polling_task =
                                      IF hit THEN "done" ELSE @]
            /\ ev' = [op |-> "poll", price |-> p, after_cleanup |-> buy.phase = "done"]
    /\ PositionUntouched

\* one turn of receive_loop while its task runs
receive_task_turn ==
    /\ buy.ws_receive_task = "running"
    /\ buy.is_connected
    /\ \E p \in TickPrices :
         ev' = [op |-> "recv", price |-> p, after_cleanup |-> buy.phase = "done"]
    /\ UNCHANGED buy
    /\ PositionUntouched

InitShutdown ==
    /\ config \in Configs
    /\ ~config.enable_lazy_verification
    /\ config.balance_check_interval = 0
    /\ ~config.cancel_outstanding_on_failure
    /\ ~config.enable_stop_loss /\ ~config.enable_daily_force_sell
    /\ config.stop_loss_delay_minutes = 0
    /\ buy_info \in [buy_price : SeedPrice, quantity : SeedQty,
                     buy_time : {None}, is_verified : {TRUE}]
    /\ trading_lock = NoLock
    /\ sell_executed = FALSE
    /\ callbacks = TRUE
    /\ sell_order_no = None
    /\ last_balance_check = None
    /\ now = 0
    /\ orders = <<>>
    /\ pc = [t \in Tasks |-> "idle"]
    /\ elapsed_time = [t \in Tasks |-> 0]
    /\ wait_order_no = [t \in Tasks |-> None]
    /\ ev = NoEv
    /\ buy \in [phase : {"running"}, system : ShutdownSystems,
                websocket : BOOLEAN, is_connected : BOOLEAN,
                ws_receive_task : TaskStates, polling_task : TaskStates,
                outstanding : BOOLEAN, steps : {<<>>}]
    \* start_websocket_monitoring creates the feed, connects it and then
    \* starts the receive task; only AutoTradingSystem starts a polling task
    /\ buy.is_connected => buy.websocket
    /\ buy.ws_receive_task # "none" => buy.websocket
    /\ buy.system = "TradingSystemBase" => buy.polling_task = "none"

NextShutdown ==
    \/ base_cleanup_close \/ base_cleanup_cancel
    \/ auto_cleanup_cancel \/ auto_cleanup_close \/ auto_cleanup_disconnect
    \/ polling_task_turn \/ receive_task_turn

SpecShutdown == InitShutdown /\ [][NextShutdown]_vars

\* C31: on shutdown the feed connection is closed first and after that the
\* receive task and the backup-polling task are cancelled: once cleanup has
\* returned neither task is running, and a receive task that was cancelled
\* was cancelled after the close.
C31_ShutdownStopsBothTasks ==
    buy.phase = "done"
        => /\ buy.ws_receive_task # "running"
           /\ buy.polling_task # "running"
           /\ \A i, j \in 1..Len(buy.steps) :
                 (buy.steps[i] = "close" /\ buy.steps[j] = "cancel_receive")
                    => i < j


\* what on_price_update decided on: a positive price against a known buy price
StopLossDue ==
    /\ Evaluated
    /\ config.enable_stop_loss
    /\ StopLossHit(ev.price, buy_info.buy_price)
    /\ ~ev.pre_flag
    /\ ~(config.enable_daily_force_sell /\ is_force_sell_time(now))

\* C32: for a position without buy_time (restored from a lock record that
\* has no trading_time) the delay gate is not applied: a tick at or below
\* the stop-loss rate, with stop-loss enabled, no sell under way and the
\* forced liquidation not due, takes the stop-loss path whatever
\* stop_loss_delay_minutes is.
C32_NoEntryTimeNoDelay ==
    (StopLossDue /\ buy_info.buy_time = None) => ev.path = "stop"

\* the stop-loss fired at clock 0 with a delay of one minute configured
C32_Witness ==
    /\ StopLossDue /\ buy_info.buy_time = None
    /\ config.stop_loss_delay_minutes = 1
    /\ now = 0
    /\ ev.path = "stop" /\ ev.sell = "accepted"


\* a tick at or below the stop-loss rate while stop-loss is disabled and the
\* forced liquidation is not due
BreachWithStopLossOff ==
    /\ Evaluated
    /\ ~config.enable_stop_loss
    /\ StopLossHit(ev.price, buy_info.buy_price)
    /\ ~(config.enable_daily_force_sell /\ is_force_sell_time(now))

\* C33: with stop-loss disabled and the forced liquidation not due, a tick
\* at or below the stop-loss rate causes no exit action: it takes no exit
\* path, sends no order, and leaves the book, sell_executed, sell_order_no
\* and the position of every task as they were.
C33_DisabledStopLossDoesNothing ==
    [][BreachWithStopLossOff'
          => /\ ev'.path = "none" /\ ev'.sell = "none" /\ ev'.cancel = "none"
             /\ orders' = orders
             /\ sell_executed' = sell_executed
             /\ sell_order_no' = sell_order_no
             /\ pc' = pc]_vars

\* bought at 10,000, tick at 9,750 (-2.5%), stop-loss off: nothing sold
C33_Witness ==
    /\ BreachWithStopLossOff
    /\ buy_info.buy_price = 10000 /\ ev.price = 9750
    /\ ~sell_executed /\ orders = <<>>


(***************************************************************************)
(* cancel_outstanding_buy_orders (SpecCancelBuy): the safety net that      *)
(* cancels the unfilled rest of a partially filled buy before a sell.  The *)
(* record `buy` holds buy_info["buy_order_no"] and the broker's list of    *)
(* unfilled orders.                                                        *)
(***************************************************************************)
BuyOrderNos == {1, 2}
\* the rmndr_qty field of an unfilled order as the broker sends it
QtyFields == {"", "0", "40"}
OrderedQty == 100

\* int(x or 0)
IntOrZero(x) == CASE x = "40" -> 40 [] OTHER -> 0

\* the broker's list: at most one entry per order number
OutstandingLists ==
    {l \in SUBSET [ord_no : BuyOrderNos, ord_qty : {OrderedQty},
                   rmndr_qty : QtyFields] :
        \A a, b \in l : a.ord_no = b.ord_no => a = b}

\* faulty variant: the cancel asks for the ordered quantity
remaining_qty_Ordered(order) == order.ord_qty

\* remaining_qty = int(target_order.get("rmndr_qty") or 0)
remaining_qty(order) == IntOrZero(order.rmndr_qty)

\* the entry of the list with the recorded order number, as a set
TargetOrder(list, no) == {o \in list : o.ord_no = no}

CancelBuyEv(result, query, issued) ==
    [op |-> "cancel_buy", result |-> result, query |-> query,
     issued |-> issued, buy_order_no |-> buy.buy_order_no,
     outstanding |-> buy.outstanding]

\* The whole of cancel_outstanding_buy_orders; it has no suspension point.
cancel_outstanding_buy_orders ==
    /\ buy.phase = "held"
    /\ IF buy.buy_order_no = None
       THEN /\ ev' = CancelBuyEv(TRUE, "none", <<>>)
            /\ UNCHANGED buy
       ELSE \E q \in QueryOutcomes :
            IF q = "fail"
            THEN /\ ev' = CancelBuyEv(FALSE, q, <<>>)
                 /\ UNCHANGED buy
            ELSE LET target == TargetOrder(buy.outstanding, buy.buy_order_no)
                 IN IF target = {} \/ \A o \in target : remaining_qty(o) <= 0
                    THEN /\ ev' = CancelBuyEv(TRUE, q, <<>>)
                         /\ buy' = [buy EXCEPT !.buy_order_no = None]
                    ELSE \E o \in target : \E c \in BuyCancelOutcomes :
                         LET request == [order_no |-> buy.buy_order_no,
                                         quantity |-> remaining_qty(o)]
                         IN /\ ev' = CancelBuyEv(c = "ok", q, <<request>>)
                            /\ buy' = IF c = "ok"
                                      THEN [buy EXCEPT
                                              !.buy_order_no = None,
                                              !.outstanding = @ \ target]
                                      ELSE buy
    /\ PositionUntouched

\* the broker fills the rest of an unfilled order
fill_outstanding_buy ==
    /\ buy.phase = "held"
    /\ \E o \in buy.outstanding :
         buy' = [buy EXCEPT !.outstanding = @ \ {o}]
    /\ ev' = NoEv
    /\ PositionUntouched

InitCancelBuy ==
    /\ config \in Configs
    /\ ~config.enable_lazy_verification
    /\ config.balance_check_interval = 0
    /\ ~config.cancel_outstanding_on_failure
    /\ ~config.enable_stop_loss /\ ~config.enable_daily_force_sell
    /\ config.stop_loss_delay_minutes = 0
    /\ buy_info \in [buy_price : SeedPrice, quantity : SeedQty,
                     buy_time : {None}, is_verified : {TRUE}]
    /\ trading_lock = NoLock
    /\ sell_executed = FALSE
    /\ callbacks = TRUE
    /\ sell_order_no = None
    /\ last_balance_check = None
    /\ now = 0
    /\ orders = <<>>
    /\ pc = [t \in Tasks |-> "idle"]
    /\ elapsed_time = [t \in Tasks |-> 0]
    /\ wait_order_no = [t \in Tasks |-> None]
    /\ ev = NoEv
    /\ buy \in [phase : {"held"}, buy_order_no : BuyOrderNos \cup {None},
                outstanding : OutstandingLists]

NextCancelBuy == cancel_outstanding_buy_orders \/ fill_outstanding_buy

SpecCancelBuy == InitCancelBuy /\ [][NextCancelBuy]_vars

\* the unfilled quantity the broker holds for the order recorded before the call
RecordedRemaining ==
    IF \E o \in ev.outstanding : o.ord_no = ev.buy_order_no
    THEN IntOrZero((CHOOSE o \in ev.outstanding :
                        o.ord_no = ev.buy_order_no).rmndr_qty)
    ELSE 0

\* C34: after cancel_outstanding_buy_orders returned True no buy_order_no
\* is recorded; one cancel, for the recorded order and exactly its
\* remaining quantity, was issued if the recorded order was still in the
\* broker's list with a remaining quantity > 0, and none otherwise; without
\* a recorded buy_order_no the broker is not called at all.
C34_CancelExactlyTheRemainder ==
    ev.op = "cancel_buy"
        => /\ ev.result
              => /\ buy.buy_order_no = None
                 /\ ev.issued =
                       IF ev.buy_order_no # None /\ RecordedRemaining > 0
                       THEN <<[order_no |-> ev.buy_order_no,
                               quantity |-> RecordedRemaining]>>
                       ELSE <<>>
           /\ ev.buy_order_no = None
                 => ev.result /\ ev.issued = <<>> /\ ev.query = "none"

\* 40 of the 100 ordered shares were unfilled and their cancel went through
C34_Witness ==
    /\ ev.op = "cancel_buy" /\ ev.result
    /\ ev.buy_order_no = 1 /\ RecordedRemaining = 40
    /\ Len(ev.issued) = 1 /\ ev.issued[1].quantity = 40
    /\ buy.buy_order_no = None


(***************************************************************************)
(* KiwoomWebSocket.connect (SpecConnect), one action per stretch between   *)
(* two awaits.  The record `buy` holds the feed object and the token of    *)
(* the order API; tokens are numbered in the order they were issued.       *)
(***************************************************************************)
MaxConnects == 2      \* calls of connect() by start-up and reconnection

NoToken == 0
IoOutcomes == {"ok", "raise"}
LoginResponses == {"accepted", "rejected", "timeout"}

ConnectEv(step, outcome) == [op |-> "connect", step |-> step, outcome |-> outcome]

\* faulty variant: the retry itself may retry once more
MayRetry_Again(retry_count) == retry_count <= 1

\* `if retry_count == 0` of the login failure branch
MayRetry(retry_count) == retry_count = 0

\* a caller (start_websocket_monitoring, or receive_loop after the
\* connection was lost) calls connect()
connect_call ==
    /\ buy.phase \in {"idle", "raised"}
    /\ ~buy.is_connected
    /\ buy.connects < MaxConnects
    /\ buy' = [buy EXCEPT !.phase = "called", !.retry_count = 0,
                          !.connects = @ + 1, !.logins = <<>>]
    /\ ev' = ConnectEv("call", "ok")
    /\ PositionUntouched

\* connect up to `await websockets.connect(...)`: get_access_token asks for
\* a token and stores it, or raises
connect_open ==
    /\ buy.phase = "called"
    /\ \E t \in IoOutcomes, c \in IoOutcomes :
         IF t = "raise"
         THEN /\ buy' = [buy EXCEPT !.phase = "raised"]
              /\ ev' = ConnectEv("token", "raise")
         ELSE /\ buy' = [buy EXCEPT
                            !.issued = @ + 1,
                            !.access_token = buy.issued + 1,
                            !.phase = IF c = "ok" THEN "open" ELSE "raised"]
              /\ ev' = ConnectEv("open", c)
    /\ PositionUntouched

\* the LOGIN message with the token is sent
connect_login ==
    /\ buy.phase = "open"
    /\ \E c \in IoOutcomes :
         /\ buy' = [buy EXCEPT
                       !.logins = IF c = "ok"
                                  THEN Append(@, buy.access_token) ELSE @,
                       !.phase = IF c = "ok" THEN "login_sent" ELSE "raised"]
         /\ ev' = ConnectEv("login", c)
    /\ PositionUntouched

\* the login response: return_code 0 connects; any other closes the socket,
\* drops the token and calls connect(retry_count=1), or raises in the retry
connect_response ==
    /\ buy.phase = "login_sent"
    /\ \E r \in LoginResponses :
         /\ ev' = ConnectEv("response", r)
         /\ buy' =
              IF r = "accepted"
              THEN [buy EXCEPT !.phase = "connected", !.is_connected = TRUE]
              ELSE IF r = "rejected" /\ MayRetry(buy.retry_count)
              THEN [buy EXCEPT !.phase = "called", !.access_token = NoToken,
                               !.retry_count = @ + 1]
              ELSE [buy EXCEPT !.phase = "raised"]
    /\ PositionUntouched

\* receive_loop finds the connection closed
connection_lost ==
    /\ buy.phase = "connected"
    /\ buy' = [buy EXCEPT !.phase = "idle", !.is_connected = FALSE]
    /\ ev' = ConnectEv("lost", "ok")
    /\ PositionUntouched

InitConnect ==
    /\ config \in Configs
    /\ ~config.enable_lazy_verification
    /\ config.balance_check_interval = 0
    /\ ~config.cancel_outstanding_on_failure
    /\ ~config.enable_stop_loss /\ ~config.enable_daily_force_sell
    /\ buy_info \in [buy_price : SeedPrice, quantity : SeedQty,
                     buy_time : {None}, is_verified : {TRUE}]
    /\ trading_lock = NoLock
    /\ sell_executed = FALSE
    /\ callbacks = TRUE
    /\ sell_order_no = None
    /\ last_balance_check = None
    /\ now = 0
    /\ orders = <<>>
    /\ pc = [t \in Tasks |-> "idle"]
    /\ elapsed_time = [t \in Tasks |-> 0]
    /\ wait_order_no = [t \in Tasks |-> None]
    /\ ev = NoEv
    \* the order API may hold a token from an earlier call
    /\ \E held \in {0, 1} :
         buy = [phase |-> "idle", is_connected |-> FALSE, retry_count |-> 0,
                connects |-> 0, issued |-> held,
                access_token |-> IF held = 1 THEN 1 ELSE NoToken,
                logins |-> <<>>]

NextConnect ==
    \/ connect_call \/ connect_open \/ connect_login \/ connect_response
    \/ connection_lost

SpecConnect == InitConnect /\ [][NextConnect]_vars

\* C35: one call of connect() sends at most two LOGIN messages; after the
\* first is rejected the token is dropped and the retry logs in with a
\* token issued after it; a rejection of the second raises; an accepted
\* login, first or second, leaves the feed connected.
C35_LoginRetriedOnce ==
    /\ Len(buy.logins) <= 2
    /\ buy.retry_count <= 1
    /\ Len(buy.logins) = 2
          => buy.retry_count = 1 /\ buy.logins[2] > buy.logins[1]
    /\ (ev.op = "connect" /\ ev.step = "response" /\ ev.outcome = "rejected")
          => \/ /\ Len(buy.logins) = 1 /\ buy.phase = "called"
                /\ buy.retry_count = 1 /\ buy.access_token = NoToken
             \/ Len(buy.logins) = 2 /\ buy.phase = "raised"
    /\ (ev.op = "connect" /\ ev.step = "response" /\ ev.outcome = "accepted")
          => buy.is_connected /\ buy.phase = "connected"

\* the first login was rejected, the second, with a new token, accepted
C35_Witness ==
    /\ ev.op = "connect" /\ ev.step = "response" /\ ev.outcome = "accepted"
    /\ Len(buy.logins) = 2 /\ buy.logins[2] > buy.logins[1]
    /\ buy.is_connected


\* C36: an exit path that returns without sending a sell order because the
\* tracked quantity is <= 0 leaves sell_executed false.
C36_NoOrderNoFlag ==
    (ev.op = "tick" /\ ev.path \in {"stop", "profit"} /\ ev.sell = "none"
        /\ buy_info.quantity <= 0)
        => ~sell_executed


\* C37: after a limit buy that came back NOT_EXECUTED, with the fallback to
\* a market order enabled, the market buy is sent only when the cancel of
\* the limit order succeeded, so that one signal never has two buy orders
\* of one sizing each working at the broker.
C37_FallbackOnlyAfterCancel ==
    (buy.phase \in {"bought", "abandoned"}
        /\ buy.result.status = "NOT_EXECUTED"
        /\ buy.order_type = "market" /\ buy.submitted = 2)
        => /\ buy.cancels # <<>>
           /\ buy.cancels[Len(buy.cancels)].result = "ok"

\* C38: wait_for_buy_execution does not return NOT_EXECUTED (executed_qty
\* 0) when its last balance query before the timeout found the stock held
\* with a quantity > 0.
C38_HeldSharesAreReported ==
    buy.result.status = "NOT_EXECUTED" => buy.poll.actual_qty = 0


\* the order of the exit path that has just run to its end: the latest
\* order of its kind in the book
ExitKind == CASE ev.path = "unreg_profit" -> "profit"
              [] ev.path = "unreg_stop" -> "stop"
              [] OTHER -> "force"
ExitOrder ==
    LET of_kind == {i \in 1..Len(orders) : orders[i].kind = ExitKind}
    IN orders[CHOOSE i \in of_kind : \A j \in of_kind : j <= i]

\* C39: the monitoring of the position (callback and receive task) is
\* stopped only after the exit order is confirmed filled: when an exit path
\* has unregistered the stock and cancelled the receive task, its order is
\* filled, on the stop-loss and forced-liquidation paths as on take-profit.
C39_MonitoringStopsAfterFill ==
    ev.op = "finish" => ExitOrder.state = "filled"


(***************************************************************************)
(* KiwoomWebSocket.receive_loop, the reconnection (SpecReconnect), one     *)
(* action per stretch between two awaits.  The record `buy` holds the feed *)
(* object: its callbacks dict, the loop's position, and what the broker    *)
(* has registered on the current connection.                               *)
(***************************************************************************)
Symbols == {"A", "B"}
CallbackIds == {1, 2}
RegisterOutcomes == {"registered", "rejected", "raise"}

\* dict operations on self.callbacks
DictSet(d, k, v) == [x \in DOMAIN d \cup {k} |-> IF x = k THEN v ELSE d[x]]
DictDel(d, k) == [x \in DOMAIN d \ {k} |-> d[x]]

FeedEv(op, symbol, outcome) == [op |-> op, symbol |-> symbol, outcome |-> outcome]

\* after the inner loop: `if not auto_reconnect: break`, else the
\* reconnection is tried after reconnect_delay
AfterLoss(auto_reconnect) == IF auto_reconnect THEN "reconnect_wait" ELSE "exited"

\* faulty variant: nothing is registered again
ToRegister_Nothing(saved_callbacks) == {}

\* `for stock_code, callback in saved_callbacks.items()`
ToRegister(saved_callbacks) == DOMAIN saved_callbacks

\* a REAL message for a registered symbol: _handle_realtime_data calls the
\* callback of the symbol if it has one
receive_real ==
    /\ buy.phase = "receiving" /\ buy.is_connected
    /\ \E s \in buy.server :
         ev' = FeedEv("tick", s, IF s \in DOMAIN buy.callbacks
                                 THEN buy.callbacks[s] ELSE 0)
    /\ UNCHANGED buy
    /\ PositionUntouched

\* unregister_stock, called by an exit path: REMOVE is sent and the
\* callback deleted
unregister_stock ==
    /\ buy.phase = "receiving" /\ buy.is_connected
    /\ \E s \in DOMAIN buy.callbacks :
         /\ buy' = [buy EXCEPT !.callbacks = DictDel(@, s),
                               !.server = @ \ {s}]
         /\ ev' = FeedEv("unregister", s, "ok")
    /\ PositionUntouched

\* recv raises ConnectionClosed (or the SYSTEM message R10001 arrives): the
\* inner loop is left with is_connected False
receive_loop_closed ==
    /\ buy.phase = "receiving" /\ buy.is_connected
    /\ buy' = [buy EXCEPT !.is_connected = FALSE, !.server = {},
                          !.requested = {},
                          !.lost_with = buy.callbacks,
                          !.phase = AfterLoss(buy.auto_reconnect)]
    /\ ev' = FeedEv("lost", "", "ok")
    /\ PositionUntouched

\* after the sleep: the callbacks are saved and connect() is awaited
reconnect_connect ==
    /\ buy.phase = "reconnect_wait"
    /\ \E c \in IoOutcomes :
         /\ ev' = FeedEv(IF c = "ok" /\ ToRegister(buy.callbacks) = {}
                         THEN "reconnected" ELSE "connect", "", c)
         /\ buy' =
              IF c = "raise"
              THEN [buy EXCEPT !.phase = "backoff"]
              ELSE [buy EXCEPT
                      !.is_connected = TRUE,
                      !.saved_callbacks = buy.callbacks,
                      !.todo = ToRegister(buy.callbacks),
                      !.phase = IF ToRegister(buy.callbacks) = {}
                                THEN "receiving" ELSE "registering"]
    /\ PositionUntouched

\* one turn of the registration loop: register_stock stores the callback,
\* sends REG and reads the answer; an exception leaves the loop
reconnect_register ==
    /\ buy.phase = "registering"
    /\ \E s \in buy.todo : \E r \in RegisterOutcomes :
         /\ ev' = FeedEv(IF r # "raise" /\ buy.todo = {s}
                         THEN "reconnected" ELSE "register", s, r)
         /\ buy' = [buy EXCEPT
                      !.callbacks = DictSet(@, s, buy.saved_callbacks[s]),
                      !.requested = IF r = "raise" THEN @ ELSE @ \cup {s},
                      !.server = IF r = "registered" THEN @ \cup {s} ELSE @,
                      !.todo = IF r = "raise" THEN @ ELSE @ \ {s},
                      !.phase = IF r = "raise" THEN "backoff"
                                ELSE IF buy.todo = {s} THEN "receiving"
                                ELSE "registering"]
    /\ PositionUntouched

\* the except clause of the reconnection: sleep, then `continue` to the
\* top of the outer loop, where is_connected decides
reconnect_backoff ==
    /\ buy.phase = "backoff"
    /\ buy' = [buy EXCEPT !.phase = IF buy.is_connected
                                    THEN "receiving" ELSE "reconnect_wait"]
    /\ ev' = FeedEv("backoff", "", "ok")
    /\ PositionUntouched

InitReconnect ==
    /\ config \in Configs
    /\ ~config.enable_lazy_verification
    /\ config.balance_check_interval = 0
    /\ ~config.cancel_outstanding_on_failure
    /\ ~config.enable_stop_loss /\ ~config.enable_daily_force_sell
    /\ config.stop_loss_delay_minutes = 0
    /\ buy_info \in [buy_price : SeedPrice, quantity : SeedQty,
                     buy_time : {None}, is_verified : {TRUE}]
    /\ trading_lock = NoLock
    /\ sell_executed = FALSE
    /\ callbacks = TRUE
    /\ sell_order_no = None
    /\ last_balance_check = None
    /\ now = 0
    /\ orders = <<>>
    /\ pc = [t \in Tasks |-> "idle"]
    /\ elapsed_time = [t \in Tasks |-> 0]
    /\ wait_order_no = [t \in Tasks |-> None]
    /\ ev = NoEv
    \* the loop starts on a connection on which every symbol with a
    \* callback was registered
    /\ \E registered \in SUBSET Symbols :
       \E cb \in [registered -> CallbackIds] :
       \E auto \in BOOLEAN :
         buy = [phase |-> "receiving", auto_reconnect |-> auto,
                is_connected |-> TRUE, callbacks |-> cb,
                server |-> registered, requested |-> registered,
                saved_callbacks |-> cb, lost_with |-> cb, todo |-> {}]

NextReconnect ==
    \/ receive_real \/ unregister_stock \/ receive_loop_closed
    \/ reconnect_connect \/ reconnect_register \/ reconnect_backoff

SpecReconnect == InitReconnect /\ [][NextReconnect]_vars

\* C40: with auto-reconnect on the receive loop never exits after the
\* connection was lost, it tries the reconnection again after every
\* failure of connect(); and when a reconnection went through, every symbol
\* that had a callback when the connection was lost has the same callback
\* and had its REG request sent on the new connection, and the symbols the
\* broker accepted deliver ticks again.
C40_ReconnectRestoresCallbacks ==
    /\ buy.auto_reconnect => buy.phase # "exited"
    /\ (ev.op = "connect" /\ ev.outcome = "raise") => buy.phase = "backoff"
    /\ (buy.phase = "backoff" /\ ~buy.is_connected)
          => buy.callbacks = buy.lost_with
    /\ ev.op = "reconnected"
          => /\ buy.phase = "receiving" /\ buy.is_connected
             /\ buy.callbacks = buy.lost_with
             /\ buy.requested = DOMAIN buy.lost_with
             /\ buy.server \subseteq buy.requested

\* both symbols are registered again after a loss, each with its own callback
C40_Witness ==
    /\ ev.op = "reconnected"
    /\ DOMAIN buy.callbacks = Symbols
    /\ buy.callbacks["A"] # buy.callbacks["B"]
    /\ buy.server = Symbols
    /\ buy.auto_reconnect

====
